---- MODULE Spec2Model ----
(***************************************************************************)
(* A model of python-blessclient: the region ring of client.main, the      *)
(* credential / token / IP cache, the certificate freshness decision and   *)
(* the signing pipeline of bless().                                        *)
(*                                                                         *)
(* Conventions                                                             *)
(*   - AWS regions are the integers 1..MaxRegion; their numeric order is   *)
(*     the alphabetical order of the region codes that sorted() uses.      *)
(*   - Absolute times are counted in ticks, TicksPerSec ticks to a second. *)
(*     A '%Y%m%dT%H%M%SZ' string is modelled by the whole second it names, *)
(*     BadStamp being a string that strptime cannot parse.                 *)
(*   - A Python dict is a function whose DOMAIN is its set of keys; None   *)
(*     (what cache.get returns for an absent key) is the empty function.   *)
(***************************************************************************)
EXTENDS Integers, Sequences, FiniteSets, TLC

VARIABLES
    pc,            \* position of the modelled program / operation
    region_alias,  \* bless_config.get('REGION_ALIAS'): alias -> AWS region
    region,        \* the region argument of the operation in progress
    regions,       \* the list built by get_regions
    token_skew,    \* kmsauth.TOKEN_SKEW of the installed kmsauth library, minutes
    blessconfig,   \* the lambda config: certlifetime and ipcachelifetime, seconds
    userIP,        \* the UserIP object: fresh, currentIP
    cert_file,     \* the certificate file: exists, mtime, content
    cache,         \* BlessCache: the in-memory mapping
    disk,          \* BlessCache: the mapping as last saved to the cache file
    now,           \* the wall clock, in ticks
    serial,        \* number of credentials / tokens the services have issued
    log,           \* external calls and cache writes of the operation in progress
    ret,           \* outcome of the last operation: value returned or exception
    pre,           \* the cache and the clock at the start of the last operation
    args,          \* the run: entry point, arguments, configuration, environment
    locals,        \* the local variables of the bless() call in progress
    attempted,     \* the regions the loop of main has taken, with their outcomes
    exit_status,   \* the exit status of the process, -1 while it runs
    ssh_agent,     \* the certificate the SSH agent holds for the identity
    peer           \* a second process on the same cache file: its BlessCache

cfgvars == <<region_alias, region, regions, token_skew, peer>>
storevars == <<cache, disk, serial>>
opvars == <<log, ret, pre>>
envvars == <<blessconfig, userIP, cert_file>>
runvars == <<args, locals, attempted, exit_status, ssh_agent>>
vars == <<pc, cfgvars, storevars, now, opvars, envvars, runvars>>

----------------------------------------------------------------------------
(* Bounds *)

MaxRegion == 3
MaxAlias == 3

Regions == 1..MaxRegion
Aliases == 1..MaxAlias

\* a region code that no alias maps to
NoRegion == 0

----------------------------------------------------------------------------
(* Time and the '%Y%m%dT%H%M%SZ' representation *)

TicksPerSec == 2

\* the instant every specification starts at: second 10, on the second
Now0 == 20

\* a time string that strptime rejects
BadStamp == -1

\* datetime.strftime('%Y%m%dT%H%M%SZ'): the sub-second part is dropped
Strftime(t) == t \div TicksPerSec

\* time.strptime(s, '%Y%m%dT%H%M%SZ'): a struct_time <<second, tm_isdst>>;
\* strptime leaves tm_isdst at -1
Strptime(s) == <<s, -1>>

\* time.gmtime(): a struct_time with tm_isdst = 0
Gmtime(t) == <<t \div TicksPerSec, 0>>

\* the comparison made non-strict: an expiration in the current second passes
StructGE(a, b) == a[1] >= b[1]

\* a > b on struct_time values (tuple comparison, left to right)
StructGT(a, b) == a[1] > b[1] \/ (a[1] = b[1] /\ a[2] > b[2])

----------------------------------------------------------------------------
(* BlessCache: get / set / save *)

\* what cache.get returns for an absent key: None for a dict-valued key,
\* 0 for a scalar key
None == <<>>
NoValue == 0

\* the content of a certificate file that does not exist, and the certificate
\* an earlier run has written
NoContent == <<>>
OldCert == [prefix |-> TRUE, json |-> FALSE, errorType |-> "", body |-> 0]

EmptyCache ==
    [blessrole_creds |-> None,
     housekeeperrole_creds |-> None,
     kmsauth |-> [r \in Regions |-> None],
     vault_creds |-> None,
     userarn |-> NoValue,
     username |-> NoValue,
     lastip |-> NoValue,
     lastipchecktime |-> NoValue,
     certip |-> NoValue,
     remote_ip |-> NoValue,
     bastion_ips |-> None,
     last_updated |-> NoValue]

Ev(e, r) == [e |-> e, r |-> r]

\* the frame an operation works on
Frame(c, d, n) == [cache |-> c, disk |-> d, serial |-> n, log |-> <<>>]

CacheSet(st, key, v) ==
    [st EXCEPT !.cache[key] = v, !.log = Append(@, Ev("set", 0))]

CacheSetToken(st, r, v) ==
    [st EXCEPT !.cache.kmsauth[r] = v, !.log = Append(@, Ev("set", r))]

\* a save that keeps the token entries of the file which the saving process
\* does not have
CacheSaveMerged(st) ==
    [st EXCEPT !.disk = [st.cache EXCEPT !.kmsauth =
                            [r \in DOMAIN st.cache.kmsauth |->
                                IF st.cache.kmsauth[r] = <<>>
                                THEN st.disk.kmsauth[r]
                                ELSE st.cache.kmsauth[r]]],
               !.log = Append(@, [e |-> "save", r |-> 0])]

CacheSave(st) ==
    [st EXCEPT !.disk = st.cache, !.log = Append(@, Ev("save", 0))]

\* a call to an external service
Call(st, e, r) == [st EXCEPT !.log = Append(@, Ev(e, r))]

\* the service issues a new credential or token
Issue(st) == [st EXCEPT !.serial = @ + 1]

Returns(st, v) == [st |-> st, exc |-> "none", val |-> v]
Raises(st, e) == [st |-> st, exc |-> e, val |-> 0]

Count(l, e) == Len(SelectSeq(l, LAMBDA x : x.e = e))

Range(l) == {l[i] : i \in 1..Len(l)}

NetworkEvents == {"get_user", "assume_role", "mint", "fetch", "sign", "login"}
NetworkCalls(l) == Len(SelectSeq(l, LAMBDA x : x.e \in NetworkEvents))
CacheWrites(l) == Len(SelectSeq(l, LAMBDA x : x.e \in {"set", "save"}))

StoreIdle ==
    /\ cache = EmptyCache
    /\ disk = EmptyCache
    /\ serial = 1

\* no certificate file, no fixed IP, the lifetimes of the sample configuration
EnvIdle ==
    /\ blessconfig = [certlifetime |-> 120, ipcachelifetime |-> 120]
    /\ userIP = [fresh |-> FALSE, currentIP |-> NoValue]
    /\ cert_file = [exists |-> FALSE, mtime |-> 0, content |-> NoContent]

\* the second process has not made its BlessCache yet
NoPeer == [loaded |-> FALSE, cache |-> EmptyCache]

\* no run of main in progress
RunIdle ==
    /\ args = <<>>
    /\ locals = <<>>
    /\ attempted = <<>>
    /\ exit_status = -1
    /\ ssh_agent = NoValue

OpIdle ==
    /\ log = <<>>
    /\ ret = [exc |-> "none", val |-> 0]
    /\ pre = [op |-> "none", arg |-> 0, cache |-> EmptyCache,
              disk |-> EmptyCache, now |-> Now0]

----------------------------------------------------------------------------
(* get_regions *)

\* every REGION_ALIAS dict with at least one alias
AliasMaps == UNION {[A -> Regions] : A \in (SUBSET Aliases) \ {{}}}

\* number of aliases of the dict whose value is r
CountValue(aliases, r) == Cardinality({a \in DOMAIN aliases : aliases[a] = r})

RECURSIVE Repeat(_, _)
Repeat(x, n) == IF n = 0 THEN <<>> ELSE <<x>> \o Repeat(x, n - 1)

\* tuple(sorted(aliases.values())): the values in ascending order, a value
\* that several aliases share appearing once per alias
RECURSIVE SortedFrom(_, _)
SortedFrom(aliases, r) ==
    IF r > MaxRegion THEN <<>>
    ELSE Repeat(r, CountValue(aliases, r)) \o SortedFrom(aliases, r + 1)

SortedValues(aliases) == SortedFrom(aliases, 1)

\* aws_regions.index(region), 0-based; ValueError is reported as -1
IndexOf(seq, x) ==
    IF \E i \in 1..Len(seq) : seq[i] = x
    THEN (CHOOSE i \in 1..Len(seq) : seq[i] = x /\ \A j \in 1..(i - 1) : seq[j] # x) - 1
    ELSE -1

\* the while loop of get_regions; ndx is the 0-based Python index
RECURSIVE RegionsLoop(_, _, _)
RegionsLoop(aws_regions, ndx, acc) ==
    IF Len(acc) < Len(aws_regions)
    THEN RegionsLoop(aws_regions, (ndx + 1) % Len(aws_regions),
                     Append(acc, aws_regions[ndx + 1]))
    ELSE acc

\* get_regions without the rotation: the ring always starts at index 0
get_regions_unrotated(r, aliases) ==
    RegionsLoop(SortedValues(aliases), 0, <<>>)

get_regions(r, aliases) ==
    LET aws_regions == SortedValues(aliases)
        found == IndexOf(aws_regions, r)
        ndx == IF found = -1 THEN 0 ELSE found
    IN  RegionsLoop(aws_regions, ndx, <<>>)

\* get_region_from_code: None (NoValue) stands for the alphabetically first
\* alias; the ValueError for an unrecognized code is reported as NoRegion
get_region_from_code(region_code, aliases) ==
    LET first == CHOOSE a \in DOMAIN aliases : \A b \in DOMAIN aliases : a <= b
        alias_code == IF region_code = NoValue THEN first ELSE region_code
    IN  IF alias_code \in DOMAIN aliases THEN aliases[alias_code] ELSE NoRegion

----------------------------------------------------------------------------
(* Specification SpecRegions: get_regions applied to every configuration *)

InitRegions ==
    /\ pc = "call"
    /\ region_alias \in AliasMaps
    /\ region \in Regions \cup {NoRegion}
    /\ regions = <<>>
    /\ token_skew = 3
    /\ peer = NoPeer
    /\ StoreIdle
    /\ now = Now0
    /\ OpIdle
    /\ EnvIdle
    /\ RunIdle

CallGetRegions ==
    /\ pc = "call"
    /\ regions' = get_regions(region, region_alias)
    /\ pc' = "returned"
    /\ UNCHANGED <<region_alias, region, token_skew, peer, storevars, now, opvars, envvars, runvars>>

NextRegions == CallGetRegions

SpecRegions == InitRegions /\ [][NextRegions]_vars

Values(aliases) == {aliases[a] : a \in DOMAIN aliases}
Occurrences(seq, x) == Cardinality({i \in 1..Len(seq) : seq[i] = x})

\* C1: the result of get_regions is the sorted list of configured regions
\* rotated to start at the start region (at index 0 when the start region is
\* not configured): same length, ring order preserved, every configured
\* region as often as it is configured, so exactly once when the configured
\* regions are distinct.
C1_RegionRing ==
    pc = "returned" =>
        LET sorted == SortedValues(region_alias)
            n == Len(sorted)
            k == IF region \in Values(region_alias)
                 THEN CHOOSE i \in 0..(n - 1) :
                        sorted[i + 1] = region /\ \A j \in 1..i : sorted[j] # region
                 ELSE 0
        IN  /\ Len(regions) = n
            /\ \A i \in 1..n : regions[i] = sorted[((k + i - 1) % n) + 1]
            /\ \A i \in 1..(n - 1) : sorted[i] <= sorted[i + 1]
            /\ region \in Values(region_alias) => regions[1] = region
            /\ region \notin Values(region_alias) => regions = sorted
            /\ \A r \in Regions : Occurrences(regions, r) = CountValue(region_alias, r)
            /\ Cardinality(Values(region_alias)) = Cardinality(DOMAIN region_alias)
                 => \A r \in Values(region_alias) : Occurrences(regions, r) = 1

\* three distinct regions, the ring starting at the last of the sorted list
C1_Witness ==
    /\ pc = "returned"
    /\ Cardinality(Values(region_alias)) = 3
    /\ region = 3
    /\ regions = <<3, 1, 2>>

----------------------------------------------------------------------------
(* Role credentials: uncache_creds, make_cachable_creds,                   *)
(* get_blessrole_credentials, get_housekeeperrole_credentials              *)

\* blessconfig.get_client_config()['usebless_role_session_length'], seconds
usebless_role_session_length == 3600

\* the IAM user that iam_client.get_user() reports
TheUser == 1

\* make_cachable_creds: the datetime Expiration becomes a time string
make_cachable_creds(token_data) ==
    [token_data EXCEPT !.Expiration = Strftime(@)]

\* uncache_creds: the time string becomes a struct_time; a dict without
\* 'Expiration' (and None) is handed back as it is
uncache_creds(cached_data) ==
    IF cached_data # None /\ "Expiration" \in DOMAIN cached_data
    THEN IF cached_data.Expiration = BadStamp
         THEN [exc |-> "ValueError", val |-> None]
         ELSE [exc |-> "none",
               val |-> [cached_data EXCEPT !.Expiration = Strptime(@)]]
    ELSE [exc |-> "none", val |-> cached_data]

\* sts.assume_role(...)['Credentials'] at time t, then cached under key
AssumeAndCache(st, t, key, ext) ==
    LET s1 == Call(st, "assume_role", 0)
        s2 == Issue(s1)
        role_creds == [AccessKeyId |-> s2.serial,
                       Expiration |-> t + usebless_role_session_length * TicksPerSec]
        s3 == CacheSave(CacheSet(s2, key, make_cachable_creds(role_creds)))
    IN  IF ext.assume_role # "ok"
        THEN Raises(s1, ext.assume_role)
        ELSE Returns(s3, role_creds.AccessKeyId)

\* the test  role_creds and role_creds['Expiration'] > time.gmtime()
\* "valid", "stale", or the exception it raises
CachedCredsState(cached, t) ==
    LET u == uncache_creds(cached)
    IN  IF u.exc # "none" THEN u.exc
        ELSE IF u.val = None THEN "stale"
        ELSE IF "Expiration" \notin DOMAIN u.val THEN "KeyError"
        ELSE IF StructGT(u.val.Expiration, Gmtime(t)) THEN "valid"
        ELSE "stale"

get_blessrole_credentials(st, t, ext) ==
    LET state == CachedCredsState(st.cache.blessrole_creds, t)
        lookup == st.cache.userarn = NoValue
        s1 == IF lookup THEN Call(st, "get_user", 0) ELSE st
        s2 == IF lookup
              THEN CacheSave(CacheSet(CacheSet(s1, "username", TheUser),
                                      "userarn", TheUser))
              ELSE s1
    IN  IF state = "valid" THEN Returns(st, st.cache.blessrole_creds.AccessKeyId)
        ELSE IF state # "stale" THEN Raises(st, state)
        ELSE IF lookup /\ ext.get_user # "ok" THEN Raises(s1, ext.get_user)
        ELSE AssumeAndCache(s2, t, "blessrole_creds", ext)

get_housekeeperrole_credentials(st, t, ext) ==
    LET state == CachedCredsState(st.cache.housekeeperrole_creds, t)
        lookup == ~ext.AWS_USER
        s1 == IF lookup THEN Call(st, "get_user", 0) ELSE st
    IN  IF state = "valid"
        THEN Returns(st, st.cache.housekeeperrole_creds.AccessKeyId)
        ELSE IF state # "stale" THEN Raises(st, state)
        ELSE IF lookup /\ ext.get_user # "ok" THEN Raises(s1, ext.get_user)
        ELSE AssumeAndCache(s1, t, "housekeeperrole_creds", ext)

----------------------------------------------------------------------------
(* Specification SpecCreds: the two role-credential operations called in   *)
(* any order on every shape of cached credential, while time passes        *)

\* an hour, in ticks: longer than every lifetime of the model
Hour == 3600 * TicksPerSec

\* the clock advances by single ticks, at most MaxDrift of them past a whole
\* number of hours since Now0, and by whole hours, at most MaxHours of them
MaxDrift == 1
MaxHours == 1

\* the services issue at most MaxSerial - 1 credentials and tokens
MaxSerial == 3

\* the whole seconds around Now0: now - 1s, now, now + 1s
Stamps == {Strftime(Now0) - 1, Strftime(Now0), Strftime(Now0) + 1}

\* a cached credential: absent, well formed, with an unparsable Expiration,
\* or without Expiration
CredShapes ==
    {None, [AccessKeyId |-> 1]}
        \cup {[AccessKeyId |-> 1, Expiration |-> s] : s \in Stamps \cup {BadStamp}}

\* outcomes of the AWS calls of one operation and the environment it runs in
AwsOutcomes ==
    [get_user : {"ok", "ClientError"},
     assume_role : {"ok", "ClientError", "EndpointConnectionError"},
     AWS_USER : BOOLEAN]

Tick ==
    /\ \E d \in {1, Hour} :
        /\ d = 1 => (now - Now0) % Hour < MaxDrift
        /\ d = Hour => (now - Now0) \div Hour < MaxHours
        /\ now' = now + d
    /\ UNCHANGED <<pc, cfgvars, storevars, opvars, envvars, runvars>>

\* the operation's frame becomes the state, its outcome is recorded
Finish(op, arg, out) ==
    /\ cache' = out.st.cache
    /\ disk' = out.st.disk
    /\ serial' = out.st.serial
    /\ log' = out.st.log
    /\ ret' = [exc |-> out.exc, val |-> out.val]
    /\ pre' = [op |-> op, arg |-> arg, cache |-> cache, disk |-> disk, now |-> now]

InitCreds ==
    /\ pc = "idle"
    /\ region_alias = [a \in {1} |-> 1]
    /\ region = 1
    /\ regions = <<>>
    /\ token_skew = 3
    /\ peer = NoPeer
    /\ \E b \in CredShapes, h \in CredShapes, u \in {NoValue, TheUser} :
        cache = [EmptyCache EXCEPT !.blessrole_creds = b,
                                   !.housekeeperrole_creds = h,
                                   !.userarn = u, !.username = u]
    /\ disk = cache
    /\ serial = 1
    /\ now = Now0
    /\ OpIdle
    /\ EnvIdle
    /\ RunIdle

CallBlessrole ==
    /\ serial < MaxSerial
    /\ \E ext \in AwsOutcomes :
        Finish("get_blessrole_credentials", ext,
               get_blessrole_credentials(Frame(cache, disk, serial), now, ext))
    /\ UNCHANGED <<pc, cfgvars, now, envvars, runvars>>

CallHousekeeperrole ==
    /\ serial < MaxSerial
    /\ \E ext \in AwsOutcomes :
        Finish("get_housekeeperrole_credentials", ext,
               get_housekeeperrole_credentials(Frame(cache, disk, serial), now, ext))
    /\ UNCHANGED <<pc, cfgvars, now, envvars, runvars>>

NextCreds == CallBlessrole \/ CallHousekeeperrole \/ Tick

SpecCreds == InitCreds /\ [][NextCreds]_vars

RoleOps == {"get_blessrole_credentials", "get_housekeeperrole_credentials"}

CredKey(op) ==
    IF op = "get_blessrole_credentials" THEN "blessrole_creds"
    ELSE "housekeeperrole_creds"

RoleOp(op, st, t, ext) ==
    IF op = "get_blessrole_credentials"
    THEN get_blessrole_credentials(st, t, ext)
    ELSE get_housekeeperrole_credentials(st, t, ext)

\* the entry is a dict with a parsable Expiration
WellFormed(e) ==
    e # None /\ "Expiration" \in DOMAIN e /\ e.Expiration # BadStamp

\* C7: after get_blessrole_credentials or get_housekeeperrole_credentials on
\* a cached credential with a parsable Expiration: if the Expiration is
\* strictly later than now, that credential is returned, no network call was
\* made and the cache (in memory and saved) is unchanged; if it is at or
\* before now, the operation behaves as on an absent entry (same calls, same
\* outcome), the cached credential is not returned, a normal return comes
\* with exactly one role assumption whose credential is cached and saved,
\* and the assumption is missing only when the identity lookup failed.
C7_CredentialCacheBoundary ==
    pre.op \in RoleOps =>
        LET key == CredKey(pre.op)
            e == pre.cache[key]
            absent == RoleOp(pre.op,
                             Frame([pre.cache EXCEPT ![key] = None], pre.disk, 1),
                             pre.now, pre.arg)
        IN  WellFormed(e) =>
              /\ e.Expiration * TicksPerSec > pre.now =>
                    /\ ret = [exc |-> "none", val |-> e.AccessKeyId]
                    /\ log = <<>>
                    /\ cache = pre.cache
                    /\ disk = pre.disk
              /\ e.Expiration * TicksPerSec <= pre.now =>
                    /\ ret.exc = absent.exc
                    /\ log = absent.st.log
                    /\ NetworkCalls(log) >= 1
                    /\ ret.exc = "none" =>
                          /\ Count(log, "assume_role") = 1
                          /\ ret.val # e.AccessKeyId
                          /\ cache[key].AccessKeyId = ret.val
                          /\ cache[key].Expiration * TicksPerSec > pre.now
                          /\ disk = cache
                    /\ Count(log, "assume_role") = 0 =>
                          /\ ret.exc = "ClientError"
                          /\ Count(log, "get_user") = 1

\* a credential that expires half a second after now is returned from the cache
C7_Witness ==
    /\ pre.op = "get_blessrole_credentials"
    /\ pre.now = Now0 + 1
    /\ pre.cache.blessrole_creds = [AccessKeyId |-> 1, Expiration |-> Strftime(Now0) + 1]
    /\ ret = [exc |-> "none", val |-> 1]
    /\ log = <<>>

----------------------------------------------------------------------------
(* kmsauth tokens: get_kmsauth_token, clear_kmsauth_token_cache            *)

\* token_lifetime=60 handed to KMSTokenGenerator, minutes
token_lifetime == 60

\* 'token': None
NullToken == <<>>

\* '20160101T000000Z', the Expiration of a purged entry: long before Now0
PurgedStamp == 0

\* a purge that empties the token and leaves the entry valid for the rest
\* of the day
clear_kmsauth_token_cache_keep(st, r) ==
    [st |-> [st EXCEPT !.cache.kmsauth[r] = [token |-> <<>>, Expiration |-> 43200],
                       !.disk = [st.cache EXCEPT
                                   !.kmsauth[r] = [token |-> <<>>,
                                                   Expiration |-> 43200]],
                       !.log = @ \o <<[e |-> "set", r |-> r],
                                      [e |-> "save", r |-> 0]>>],
     exc |-> "none", val |-> 0]

\* the guard dropped: the minted token is cached whatever its lifetime
ShouldCacheAlways(lifetime) == TRUE

\* if lifetime > 0
ShouldCache(lifetime) == lifetime > 0

clear_kmsauth_token_cache(st, r) ==
    Returns(CacheSave(CacheSetToken(st, r, [token |-> NullToken,
                                            Expiration |-> PurgedStamp])), 0)

\* what get_kmsauth_token does with the cached entry at time t: "cached"
\* (return its token), "mint", or the exception raised while reading it
CachedTokenState(kmsauth_cache, t) ==
    IF kmsauth_cache = None THEN "mint"
    ELSE IF "Expiration" \notin DOMAIN kmsauth_cache THEN "KeyError"
    ELSE IF kmsauth_cache.Expiration = BadStamp THEN "ValueError"
    ELSE IF StructGT(Strptime(kmsauth_cache.Expiration), Gmtime(t))
         THEN IF "token" \notin DOMAIN kmsauth_cache THEN "KeyError"
              ELSE IF kmsauth_cache.token # NullToken THEN "cached"
              ELSE "mint"
    ELSE "mint"

\* a token is bound to the region and the time it was minted for:
\* <<region, time>>
get_kmsauth_token(st, t, r, ext, skew) ==
    LET kmsauth_cache == st.cache.kmsauth[r]
        state == CachedTokenState(kmsauth_cache, t)
        s1 == Call(st, "mint", r)
        s2 == s1
        token == <<r, t>>
        lifetime == token_lifetime - (skew * 2)
        expiration == t + lifetime * 60 * TicksPerSec
        s3 == IF ShouldCache(lifetime)
              THEN CacheSave(CacheSetToken(s2, r,
                        [token |-> token, Expiration |-> Strftime(expiration)]))
              ELSE s2
    IN  IF state = "cached" THEN Returns(st, kmsauth_cache.token)
        ELSE IF state # "mint" THEN Raises(st, state)
        ELSE IF ext.mint # "ok" THEN Raises(s1, "LambdaInvocationException")
        ELSE Returns(s3, token)

----------------------------------------------------------------------------
(* Specification SpecToken: get_kmsauth_token and clear_kmsauth_token_cache *)
(* called in any order for several regions, while time passes               *)

\* the regions whose token entry varies
MaxTokenRegion == 2
TokenRegions == 1..MaxTokenRegion

\* TOKEN_SKEW values giving a usable lifetime of 54, 0 and -2 minutes
TokenSkews == {3, 30, 31}

\* a cached token entry of region r: absent, well formed around now, null
\* token with a future Expiration, purged, unparsable Expiration, no Expiration
TokenShapes(r) ==
    {None, [token |-> <<r, 0>>]}
        \cup {[token |-> <<r, 0>>, Expiration |-> s] : s \in Stamps \cup {BadStamp}}
        \cup {[token |-> NullToken, Expiration |-> s] :
                s \in {PurgedStamp, Strftime(Now0) + 1}}

\* the entries the program itself leaves behind: none, or a token still valid
PlainTokenShapes(r) ==
    {None, [token |-> <<r, 0>>, Expiration |-> Strftime(Now0) + 1]}

MintOutcomes == [mint : {"ok", "ServiceConnectionError"}]


InitToken ==
    /\ pc = "idle"
    /\ region_alias = [a \in {1} |-> 1]
    /\ region = 1
    /\ regions = <<>>
    /\ token_skew \in TokenSkews
    /\ peer = NoPeer
    /\ \E k \in [TokenRegions -> UNION {TokenShapes(r) : r \in TokenRegions}],
          r0 \in TokenRegions :
        /\ k[r0] \in TokenShapes(r0)
        /\ \A r \in TokenRegions \ {r0} : k[r] \in PlainTokenShapes(r)
        /\ cache = [EmptyCache EXCEPT
                      !.kmsauth = [r \in Regions |->
                                     IF r \in TokenRegions THEN k[r] ELSE None]]
    /\ disk = cache
    /\ serial = 1
    /\ now = Now0
    /\ OpIdle
    /\ EnvIdle
    /\ RunIdle

CallGetToken ==
    /\ \E r \in TokenRegions, ext \in MintOutcomes :
        Finish("get_kmsauth_token", [region |-> r, ext |-> ext],
               get_kmsauth_token(Frame(cache, disk, serial), now, r, ext, token_skew))
    /\ UNCHANGED <<pc, cfgvars, now, envvars, runvars>>

CallClearToken ==
    /\ \E r \in TokenRegions :
        Finish("clear_kmsauth_token_cache", [region |-> r],
               clear_kmsauth_token_cache(Frame(cache, disk, serial), r))
    /\ UNCHANGED <<pc, cfgvars, now, envvars, runvars>>

NextToken == CallGetToken \/ CallClearToken \/ Tick

SpecToken == InitToken /\ [][NextToken]_vars

\* the same operations on a cache file that only the program has written:
\* every region has no entry or a token that is still valid
InitPurge ==
    /\ pc = "idle"
    /\ region_alias = [a \in {1} |-> 1]
    /\ region = 1
    /\ regions = <<>>
    /\ token_skew \in TokenSkews
    /\ peer = NoPeer
    /\ \E k \in [TokenRegions -> UNION {PlainTokenShapes(r) : r \in TokenRegions}] :
        /\ \A r \in TokenRegions : k[r] \in PlainTokenShapes(r)
        /\ cache = [EmptyCache EXCEPT
                      !.kmsauth = [r \in Regions |->
                                     IF r \in TokenRegions THEN k[r] ELSE None]]
    /\ disk = cache
    /\ serial = 1
    /\ now = Now0
    /\ OpIdle
    /\ EnvIdle
    /\ RunIdle

SpecPurge == InitPurge /\ [][NextToken]_vars

\* Two processes on one cache file. The first has loaded the file; the
\* second loads it at its first get, and from then on each works on its own
\* mapping and writes all of it at every save
InitShare ==
    /\ pc = "idle"
    /\ region_alias = [a \in {1} |-> 1]
    /\ region = 1
    /\ regions = <<>>
    /\ token_skew = 3
    /\ peer = NoPeer
    /\ \E k \in PlainTokenShapes(1) :
        cache = [EmptyCache EXCEPT !.kmsauth[1] = k]
    /\ disk = cache
    /\ serial = 1
    /\ now = Now0
    /\ OpIdle
    /\ EnvIdle
    /\ RunIdle

\* BlessCache of the second process reads the file
PeerLoad ==
    /\ ~peer.loaded
    /\ peer' = [loaded |-> TRUE, cache |-> disk]
    /\ UNCHANGED <<pc, region_alias, region, regions, token_skew, storevars,
                   now, opvars, envvars, runvars>>

\* an operation of the second process: its frame is its own mapping and the
\* shared file
PeerFinish(op, arg, out) ==
    /\ peer' = [loaded |-> TRUE, cache |-> out.st.cache]
    /\ disk' = out.st.disk
    /\ serial' = out.st.serial
    /\ log' = out.st.log
    /\ ret' = [exc |-> out.exc, val |-> out.val]
    /\ pre' = [op |-> op, arg |-> arg, cache |-> peer.cache, disk |-> disk,
               now |-> now]
    /\ UNCHANGED <<pc, region_alias, region, regions, token_skew, cache, now,
                   envvars, runvars>>

PeerGetToken ==
    /\ peer.loaded
    /\ \E r \in TokenRegions, ext \in MintOutcomes :
        PeerFinish("peer get_kmsauth_token", [region |-> r, ext |-> ext],
                   get_kmsauth_token(Frame(peer.cache, disk, serial), now, r,
                                     ext, token_skew))

PeerClearToken ==
    /\ peer.loaded
    /\ \E r \in TokenRegions :
        PeerFinish("peer clear_kmsauth_token_cache", [region |-> r],
                   clear_kmsauth_token_cache(Frame(peer.cache, disk, serial), r))

NextShare ==
    \/ CallGetToken
    \/ CallClearToken
    \/ PeerLoad
    \/ PeerGetToken
    \/ PeerClearToken

SpecShare == InitShare /\ [][NextShare]_vars

----------------------------------------------------------------------------
(* Vault session: get_linux_username, get_cached_auth_token, auth_okta     *)

\* 'expiration': None in a cached session
NoneStamp == -2

\* response['auth']['lease_duration'], seconds
lease_duration == 1800

\* the characters of the pattern [.a-zA-Z]
UsernameCharacters ==
    {".", "a", "b", "c", "d", "e", "f", "g", "h", "i", "j", "k", "l", "m",
     "n", "o", "p", "q", "r", "s", "t", "u", "v", "w", "x", "y", "z",
     "A", "B", "C", "D", "E", "F", "G", "H", "I", "J", "K", "L", "M",
     "N", "O", "P", "Q", "R", "S", "T", "U", "V", "W", "X", "Y", "Z"}

RECURSIVE SkipToName(_)
SkipToName(username) ==
    IF username # <<>> /\ Head(username) \notin UsernameCharacters
    THEN SkipToName(Tail(username))
    ELSE username

RECURSIVE TakeName(_)
TakeName(username) ==
    IF username # <<>> /\ Head(username) \in UsernameCharacters
    THEN <<Head(username)>> \o TakeName(Tail(username))
    ELSE <<>>

\* re.search('[.a-zA-Z]+', username).group(0) on a user name given as a
\* sequence of characters: the first run of characters of the pattern. The
\* result <<>> stands for no match, where .group(0) raises AttributeError
get_linux_username(username) == TakeName(SkipToName(username))

\* the cached token, None when there is no valid one, or the exception
get_cached_auth_token(c, t) ==
    LET vault_creds == c.vault_creds
    IN  IF vault_creds = None THEN [exc |-> "none", val |-> None]
        ELSE IF "expiration" \notin DOMAIN vault_creds
             THEN [exc |-> "KeyError", val |-> None]
        ELSE IF vault_creds.expiration = NoneStamp
             THEN [exc |-> "none", val |-> None]
        ELSE IF vault_creds.expiration = BadStamp
             THEN [exc |-> "ValueError", val |-> None]
        ELSE IF t < vault_creds.expiration * TicksPerSec
             THEN [exc |-> "none", val |-> vault_creds.token]
        ELSE [exc |-> "none", val |-> None]

\* ext.login is the outcome of client.auth, ext.username the user name typed
\* at the prompt and reported back in the response metadata
auth_okta(st, t, ext) ==
    LET cached == get_cached_auth_token(st.cache, t)
        s1 == Call(st, "prompt", 0)
        s2 == Call(s1, "login", 0)
        s3 == Issue(s2)
        token == <<0, s3.serial>>
        expiration == t + lease_duration * TicksPerSec
        username == get_linux_username(ext.username)
        s4 == CacheSave(CacheSet(s3, "vault_creds",
                                 [token |-> token,
                                  expiration |-> Strftime(expiration),
                                  username |-> username]))
    IN  IF cached.exc # "none" THEN Raises(st, cached.exc)
        ELSE IF cached.val # None
             THEN LET name == get_linux_username(st.cache.vault_creds.username)
                  IN  IF name = <<>> THEN Raises(st, "AttributeError")
                      ELSE Returns(st, [token |-> cached.val,
                                        username |-> get_linux_username(name)])
        ELSE IF ext.login # "ok" THEN Raises(s2, ext.login)
        ELSE IF username = <<>> THEN Raises(s3, "AttributeError")
        ELSE Returns(s4, [token |-> token, username |-> get_linux_username(username)])

\* user names typed at the prompt: a plain one, one with digits and a
\* domain, one without any letter
Usernames ==
    {<<"j", ".", "d", "o", "e">>,
     <<"7", "j", "d", "o", "e", "2", "@", "x", ".", "i", "o">>,
     <<"4", "2">>}

\* sessions an earlier call of auth_okta can have left in the cache: none,
\* or one that expires before, at or after the start of the run, or has no
\* expiration
Sessions ==
    {None}
        \cup [token : {<<0, 0>>},
              expiration : {Strftime(Now0) - 1, Strftime(Now0),
                            Strftime(Now0) + 1, NoneStamp},
              username : {<<"j", ".", "d", "o", "e">>}]

InitAuth ==
    /\ pc = "idle"
    /\ region_alias = [a \in {1} |-> 1]
    /\ region = 1
    /\ regions = <<>>
    /\ token_skew = 3
    /\ peer = NoPeer
    /\ \E session \in Sessions :
        cache = [EmptyCache EXCEPT !.vault_creds = session]
    /\ disk = cache
    /\ serial = 1
    /\ now = Now0
    /\ OpIdle
    /\ EnvIdle
    /\ RunIdle

CallAuthOkta ==
    /\ serial < MaxSerial
    /\ \E login \in {"ok", "InvalidRequest"}, username \in Usernames :
        Finish("auth_okta", [login |-> login, username |-> username],
               auth_okta(Frame(cache, disk, serial), now,
                         [login |-> login, username |-> username]))
    /\ UNCHANGED <<pc, cfgvars, now, envvars, runvars>>

NextAuth == CallAuthOkta \/ Tick

SpecAuth == InitAuth /\ [][NextAuth]_vars

----------------------------------------------------------------------------
(* UserIP: __init__, getIP, _refreshIP, _fetchIP                           *)

\* the number of configured ip_urls
MaxUrls == 2

\* public addresses
MaxIP == 2
IPs == 1..MaxIP

\* what one endpoint answers: an address (status 200, a body of valid
\* characters) or NoValue (no usable answer)
Responses == IPs \cup {NoValue}

\* a constructor that keeps the override but does not mark it fresh
UserIPNotFresh(fixed_ip) == [fresh |-> FALSE, currentIP |-> fixed_ip]

\* UserIP.__init__(bless_cache, maxcachetime, ip_urls, fixed_ip)
UserIP(fixed_ip) ==
    IF fixed_ip # NoValue
    THEN [fresh |-> TRUE, currentIP |-> fixed_ip]
    ELSE [fresh |-> FALSE, currentIP |-> NoValue]

\* the address an endpoint's answer yields, NoValue for None
fetchIP(response) == IF response \in IPs THEN response ELSE NoValue

\* the for loop of _refreshIP from the i-th url on: a url is fetched only
\* while no address has been found
RECURSIVE RefreshLoop(_, _, _, _)
RefreshLoop(st, responses, i, ip) ==
    IF i > Len(responses) \/ ip # NoValue THEN [st |-> st, ip |-> ip]
    ELSE RefreshLoop(Call(st, "fetch", i), responses, i + 1, fetchIP(responses[i]))

\* a refresh that falls back to the cached address, whatever its age, when
\* no endpoint gives one
refreshIPFallback(st, t, responses) ==
    LET loop == RefreshLoop(st, responses, 1, NoValue)
        s1 == [loop.st EXCEPT !.userIP = [fresh |-> TRUE, currentIP |-> loop.ip]]
        s2 == CacheSave(CacheSet(CacheSet(s1, "lastip", loop.ip),
                                 "lastipchecktime", t))
    IN  IF loop.ip = NoValue
        THEN IF st.cache.lastip # NoValue
             THEN Returns(loop.st, st.cache.lastip)
             ELSE Raises(loop.st, "Exception")
        ELSE Returns(s2, loop.ip)

refreshIP(st, t, responses) ==
    LET loop == RefreshLoop(st, responses, 1, NoValue)
        s1 == [loop.st EXCEPT !.userIP = [fresh |-> TRUE, currentIP |-> loop.ip]]
        s2 == CacheSave(CacheSet(CacheSet(s1, "lastip", loop.ip),
                                 "lastipchecktime", t))
    IN  IF loop.ip = NoValue THEN Raises(loop.st, "Exception")
        ELSE Returns(s2, loop.ip)

\* a getIP that still trusts the cached address when its age is exactly
\* maxcachetime
getIPInclusive(st, t, maxcachetime, responses) ==
    LET lastip == st.cache.lastip
        lastiptime == st.cache.lastipchecktime
    IN  IF st.userIP.fresh /\ st.userIP.currentIP # NoValue
        THEN Returns(st, st.userIP.currentIP)
        ELSE IF lastiptime # NoValue /\ lastiptime + maxcachetime * TicksPerSec >= t
        THEN Returns(st, lastip)
        ELSE refreshIP(st, t, responses)

getIP(st, t, maxcachetime, responses) ==
    LET lastip == st.cache.lastip
        lastiptime == st.cache.lastipchecktime
    IN  IF st.userIP.fresh /\ st.userIP.currentIP # NoValue
        THEN Returns(st, st.userIP.currentIP)
        ELSE IF lastiptime # NoValue /\ lastiptime + maxcachetime * TicksPerSec > t
        THEN Returns(st, lastip)
        ELSE refreshIP(st, t, responses)

\* an operation's frame with the UserIP object it uses
FrameIP(c, d, n, u) ==
    [cache |-> c, disk |-> d, serial |-> n, log |-> <<>>, userIP |-> u]

----------------------------------------------------------------------------
(* check_fresh_cert *)

\* the safety margin subtracted from certlifetime, seconds
CertMargin == 15

\* the last test of check_fresh_cert
BastionTest(st, ip_list) ==
    Returns(st, ip_list = None \/ ip_list = st.cache.bastion_ips)

check_fresh_cert(st, t, cert, conf, ip_list, responses) ==
    LET certlife == t - cert.mtime
        ip == getIP(st, t, conf.ipcachelifetime, responses)
    IN  IF ~cert.exists THEN Returns(st, FALSE)
        ELSE IF ~(certlife < (conf.certlifetime - CertMargin) * TicksPerSec)
             THEN Returns(st, FALSE)
        ELSE IF certlife < conf.ipcachelifetime * TicksPerSec
             THEN BastionTest(st, ip_list)
        ELSE IF ip.exc # "none" THEN ip
        ELSE IF st.cache.certip = ip.val THEN BastionTest(ip.st, ip_list)
        ELSE Returns(ip.st, FALSE)

----------------------------------------------------------------------------
(* Specification SpecFresh: check_fresh_cert and getIP on every certificate *)
(* age, cached context and UserIP state                                     *)

\* ip_list / cached 'bastion_ips': None or a list of addresses
IpLists == {None, <<1>>, <<2>>}

\* the certificate file is at most MaxCertAge ticks old at Now0
MaxCertAge == 5

FreshConfigs == [certlifetime : {15, 17}, ipcachelifetime : {1, 3}]

InitFresh ==
    /\ pc = "idle"
    /\ region_alias = [a \in {1} |-> 1]
    /\ region = 1
    /\ regions = <<>>
    /\ token_skew = 3
    /\ peer = NoPeer
    /\ blessconfig \in FreshConfigs
    /\ \E fixed_ip \in {NoValue, 2} : userIP = UserIP(fixed_ip)
    /\ \/ cert_file = [exists |-> FALSE, mtime |-> 0, content |-> NoContent]
       \/ \E age \in {0, 3, MaxCertAge} :
            cert_file = [exists |-> TRUE, mtime |-> Now0 - age, content |-> OldCert]
    /\ \E lastip \in {NoValue, 1}, age \in {1, 4}, certip \in IPs \cup {NoValue},
          bastion_ips \in {None, <<1>>} :
        cache = [EmptyCache EXCEPT
                   !.lastip = lastip,
                   !.lastipchecktime = IF lastip = NoValue THEN NoValue ELSE Now0 - age,
                   !.certip = certip,
                   !.bastion_ips = bastion_ips]
    /\ disk = cache
    /\ serial = 1
    /\ now = Now0
    /\ OpIdle
    /\ RunIdle

\* the operation's frame becomes the state, the UserIP object included
FinishIP(op, arg, out) ==
    /\ Finish(op, arg, out)
    /\ userIP' = out.st.userIP

CallCheckFreshCert ==
    /\ \E ip_list \in IpLists, responses \in [1..MaxUrls -> Responses] :
        FinishIP("check_fresh_cert",
                 [ip_list |-> ip_list, responses |-> responses, userIP |-> userIP],
                 check_fresh_cert(FrameIP(cache, disk, serial, userIP), now,
                                  cert_file, blessconfig, ip_list, responses))
    /\ UNCHANGED <<pc, cfgvars, now, blessconfig, cert_file, runvars>>

CallGetIP ==
    /\ \E responses \in [1..MaxUrls -> Responses] :
        FinishIP("getIP", [responses |-> responses, userIP |-> userIP],
                 getIP(FrameIP(cache, disk, serial, userIP), now,
                       blessconfig.ipcachelifetime, responses))
    /\ UNCHANGED <<pc, cfgvars, now, blessconfig, cert_file, runvars>>

TickOne ==
    /\ (now - Now0) % Hour < MaxDrift
    /\ now' = now + 1
    /\ UNCHANGED <<pc, cfgvars, storevars, opvars, envvars, runvars>>

NextFresh == CallCheckFreshCert \/ CallGetIP \/ TickOne

SpecFresh == InitFresh /\ [][NextFresh]_vars

-----------------------------------------------------------------------------
(* Specification SpecIP: getIP called again and again on one UserIP object, *)
(* with and without BLESSFIXEDIP, on every age of the cached address        *)

\* the cached address was checked at most MaxIpAge ticks before Now0
MaxIpAge == 3

\* maxcachetime is one second
IpConfig == [certlifetime |-> 17, ipcachelifetime |-> 1]

InitIP ==
    /\ pc = "idle"
    /\ region_alias = [a \in {1} |-> 1]
    /\ region = 1
    /\ regions = <<>>
    /\ token_skew = 3
    /\ peer = NoPeer
    /\ blessconfig = IpConfig
    /\ \E fixed_ip \in {NoValue, 2} : userIP = UserIP(fixed_ip)
    /\ cert_file = [exists |-> FALSE, mtime |-> 0, content |-> NoContent]
    /\ \E lastip \in {NoValue, 1}, age \in 0..MaxIpAge :
        cache = [EmptyCache EXCEPT
                   !.lastip = lastip,
                   !.lastipchecktime = IF lastip = NoValue THEN NoValue
                                       ELSE Now0 - age]
    /\ disk = cache
    /\ serial = 1
    /\ now = Now0
    /\ OpIdle
    /\ RunIdle

NextIP == CallGetIP \/ TickOne

SpecIP == InitIP /\ [][NextIP]_vars

\* VALID_IP_CHARACTERS = string.hexdigits + '.:'
ValidIpCharacters ==
    {"0", "1", "2", "3", "4", "5", "6", "7", "8", "9",
     "a", "b", "c", "d", "e", "f", "A", "B", "C", "D", "E", "F", ".", ":"}

\* the characters str.strip() removes
Whitespace == {" ", "\t", "\n", "\r"}

\* str.strip(): drop the whitespace at both ends
RECURSIVE LStrip(_)
LStrip(text) ==
    IF text # <<>> /\ Head(text) \in Whitespace THEN LStrip(Tail(text))
    ELSE text

RECURSIVE RStrip(_)
RStrip(text) ==
    IF text # <<>> /\ text[Len(text)] \in Whitespace
    THEN RStrip(SubSeq(text, 1, Len(text) - 1))
    ELSE text

Strip(text) == RStrip(LStrip(text))

\* a _fetchIP that validates the body as received, without strip()
fetchIPUnstripped(r) ==
    IF r.error THEN None
    ELSE IF r.status_code = 200
    THEN IF \E i \in 1..Len(r.text) : r.text[i] \notin ValidIpCharacters
         THEN None
         ELSE <<r.text>>
    ELSE None

\* UserIP._fetchIP(url) on what the endpoint did: error says that the name
\* lookup or the request raised, text is the body, a sequence of characters.
\* The result is None or <<content>>
fetchIPText(r) ==
    IF r.error THEN None
    ELSE IF r.status_code = 200
    THEN LET content == Strip(r.text)
         IN  IF \E i \in 1..Len(content) : content[i] \notin ValidIpCharacters
             THEN None
             ELSE <<content>>
    ELSE None

\* the number that stands for the address with this text
AddressOf(content) == 1 + (Len(content) % MaxIP)

\* what _refreshIP sees of an endpoint: `if ip` is false for None and for
\* the empty string
Answer(r) ==
    LET ip == fetchIPText(r)
    IN  IF ip = None \/ ip[1] = <<>> THEN NoValue ELSE AddressOf(ip[1])

\* response bodies: the two examples of the specification, padded, empty,
\* blank and mixed ones
Bodies ==
    {<<"2", "0", "3", ".", "0", ".", "1", "1", "3", ".", "5">>,
     <<"<", "h", "t", "m", "l", ">">>,
     <<>>,
     <<" ", "\n">>,
     <<"f", "E", ":", ":", "1", "\n">>,
     <<" ", "5", ".", "5", " ">>,
     <<"5", " ", "5">>,
     <<"g">>,
     <<"1", "0", ".", "x">>}

\* what one endpoint can do
RawResponses ==
    {[error |-> TRUE, status_code |-> 0, text |-> <<>>]}
        \cup [error : {FALSE}, status_code : {200, 404}, text : Bodies]

\* a UserIP without override in front of a cache without a usable record
InitFetch ==
    /\ pc = "idle"
    /\ region_alias = [a \in {1} |-> 1]
    /\ region = 1
    /\ regions = <<>>
    /\ token_skew = 3
    /\ peer = NoPeer
    /\ blessconfig = IpConfig
    /\ userIP = UserIP(NoValue)
    /\ cert_file = [exists |-> FALSE, mtime |-> 0, content |-> NoContent]
    /\ \E lastip \in {NoValue, 1} :
        cache = [EmptyCache EXCEPT
                   !.lastip = lastip,
                   !.lastipchecktime =
                       IF lastip = NoValue THEN NoValue
                       ELSE Now0 - IpConfig.ipcachelifetime * TicksPerSec]
    /\ disk = cache
    /\ serial = 1
    /\ now = Now0
    /\ OpIdle
    /\ RunIdle

\* one call of getIP, every endpoint answering in some way
CallFetch ==
    /\ pre.op = "none"
    /\ \E raw \in [1..MaxUrls -> RawResponses] :
        FinishIP("getIP", [responses |-> raw, userIP |-> userIP],
                 getIP(FrameIP(cache, disk, serial, userIP), now,
                       blessconfig.ipcachelifetime,
                       [i \in 1..MaxUrls |-> Answer(raw[i])]))
    /\ UNCHANGED <<pc, cfgvars, now, blessconfig, cert_file, runvars>>

NextFetch == CallFetch

SpecFetch == InitFetch /\ [][NextFetch]_vars

\* the address getIP yields for the call that was made: NoValue when it raises
CurrentIP ==
    LET ip == getIP(FrameIP(pre.cache, pre.disk, 1, pre.arg.userIP), pre.now,
                    blessconfig.ipcachelifetime, pre.arg.responses)
    IN  IF ip.exc = "none" THEN ip.val ELSE NoValue

\* C4: check_fresh_cert returns True exactly when the certificate file
\* exists, its age is below certlifetime - 15, its age is below
\* ipcachelifetime or the cached 'certip' is the current IP, and ip_list is
\* None or equals the cached 'bastion_ips'; in every other case it returns
\* False.
C4_FreshnessPolicy ==
    pre.op = "check_fresh_cert" =>
        LET age == pre.now - cert_file.mtime
            policy ==
                /\ cert_file.exists
                /\ age < (blessconfig.certlifetime - 15) * TicksPerSec
                /\ \/ age < blessconfig.ipcachelifetime * TicksPerSec
                   \/ (CurrentIP # NoValue /\ pre.cache.certip = CurrentIP)
                /\ \/ pre.arg.ip_list = None
                   \/ pre.arg.ip_list = pre.cache.bastion_ips
        IN  /\ policy => ret = [exc |-> "none", val |-> TRUE]
            /\ ~policy => ret = [exc |-> "none", val |-> FALSE]

\* C6: check_fresh_cert is a pure decision: whatever the cache and the
\* UserIP object hold, evaluating it makes no network request and leaves
\* the cache unchanged (no set, no save).
C6_FreshnessIsPure ==
    pre.op = "check_fresh_cert" =>
        /\ NetworkCalls(log) = 0
        /\ CacheWrites(log) = 0
        /\ cache = pre.cache
        /\ disk = pre.disk

----------------------------------------------------------------------------
(* Claims about cached entries *)

\* a cached dict whose expiration field is missing or unparsable
Malformed(e, field) ==
    e # None /\ (field \notin DOMAIN e \/ e[field] = BadStamp)

\* the operation that was run, run again on the cache with the entry absent
AsAbsent ==
    LET op == pre.op
        blank == IF op \in RoleOps
                   THEN [pre.cache EXCEPT ![CredKey(op)] = None]
                 ELSE IF op = "get_kmsauth_token"
                   THEN [pre.cache EXCEPT !.kmsauth[pre.arg.region] = None]
                 ELSE [pre.cache EXCEPT !.vault_creds = None]
        st == Frame(blank, pre.disk, 1)
    IN  IF op \in RoleOps THEN RoleOp(op, st, pre.now, pre.arg)
        ELSE IF op = "get_kmsauth_token"
          THEN get_kmsauth_token(st, pre.now, pre.arg.region, pre.arg.ext, token_skew)
        ELSE auth_okta(st, pre.now, pre.arg)

\* the entry the operation that was run looked at, and its expiration field
EntryRead ==
    IF pre.op \in RoleOps THEN pre.cache[CredKey(pre.op)]
    ELSE IF pre.op = "get_kmsauth_token" THEN pre.cache.kmsauth[pre.arg.region]
    ELSE pre.cache.vault_creds

ExpirationField == IF pre.op = "auth_okta" THEN "expiration" ELSE "Expiration"

\* C8: a cached role credential, kmsauth token or Vault session whose
\* expiration field is missing or unparsable is treated like an absent
\* entry: the operation makes the calls and has the outcome it has on an
\* absent entry, and it does not fail on reading the entry.
C8_MalformedAsAbsent ==
    (pre.op \in RoleOps \cup {"get_kmsauth_token", "auth_okta"}
        /\ Malformed(EntryRead, ExpirationField))
    => /\ ret.exc = AsAbsent.exc
       /\ log = AsAbsent.st.log
       /\ ret.exc \notin {"KeyError", "ValueError"}
       /\ NetworkCalls(log) >= 1

\* C9: get_kmsauth_token(region) returns the cached token without minting
\* exactly when the entry of the region exists, its Expiration is strictly
\* later than now and its token is not null; in every other case exactly one
\* mint is made; a token returned is a token of the region asked for.
C9_TokenCacheHit ==
    pre.op = "get_kmsauth_token" =>
        LET e == pre.cache.kmsauth[pre.arg.region]
            usable == /\ e # None
                      /\ "Expiration" \in DOMAIN e
                      /\ e.Expiration # BadStamp
                      /\ e.Expiration * TicksPerSec > pre.now
                      /\ "token" \in DOMAIN e
                      /\ e.token # NullToken
        IN  /\ usable => /\ ret = [exc |-> "none", val |-> e.token]
                         /\ Count(log, "mint") = 0
            /\ ~usable => Count(log, "mint") = 1
            /\ ret.exc = "none" => ret.val[1] = pre.arg.region

\* the usable lifetime that get_kmsauth_token computes, minutes
UsableLifetime == token_lifetime - (token_skew * 2)

\* C10 (the call): when the usable lifetime is zero or negative, a call of
\* get_kmsauth_token that mints returns the minted token and writes nothing:
\* no set, no save, the cache in memory and on disk as before the call.
C10_CallLeavesCache ==
    (pre.op = "get_kmsauth_token" /\ UsableLifetime <= 0 /\ Count(log, "mint") = 1
        /\ ret.exc = "none")
    => /\ ret.val = <<pre.arg.region, pre.now>>
       /\ CacheWrites(log) = 0
       /\ cache = pre.cache
       /\ disk = pre.disk
       /\ CachedTokenState(cache.kmsauth[pre.arg.region], now) = "mint"

\* C10 (later calls): when the usable lifetime is zero or negative, a region
\* for which a call would mint now is a region for which a call mints at
\* every later time, whatever operations run in between.
C10_StaysUncached ==
    \A r \in TokenRegions :
        (UsableLifetime <= 0 /\ CachedTokenState(cache.kmsauth[r], now) = "mint")
        => CachedTokenState(cache'.kmsauth[r], now') = "mint"

\* C10: with a usable lifetime (token lifetime minus twice the skew) of zero
\* or less, the minted token is returned but never written to the cache, the
\* entry of the region is the same after the call as before, and every later
\* call mints again.
C10_NonPositiveLifetimeNeverCached ==
    []C10_CallLeavesCache /\ [][C10_StaysUncached]_vars

\* a token minted with lifetime 0 is returned and the cache still has no entry
C10_Witness ==
    /\ pre.op = "get_kmsauth_token"
    /\ token_skew = 30
    /\ peer = NoPeer
    /\ pre.cache.kmsauth[1] = None
    /\ pre.arg.region = 1
    /\ pre.now > Now0
    /\ ret = [exc |-> "none", val |-> <<1, pre.now>>]
    /\ cache.kmsauth[1] = None

----------------------------------------------------------------------------
(* bless(): the stages of one region attempt                               *)

\* update_client: 'last_updated' is written when the cache has none; the
\* weekly autoupdate itself is outside the model
update_client(st, t) ==
    IF st.cache.last_updated = NoValue
    THEN CacheSave(CacheSet(st, "last_updated", Strftime(t)))
    ELSE st

\* a get_username that sets 'username' and 'userarn' and leaves the save to
\* whatever operation saves next
get_username_unsaved(st, env, ext) ==
    LET cached == st.cache.username
        s1 == Call(st, "get_user", 0)
        s2 == IF ext.get_user \in {"retry_ok", "ClientError"}
              THEN Call(s1, "get_user", 0) ELSE s1
        s3 == CacheSet(CacheSet(s2, "username", TheUser), "userarn", TheUser)
    IN  IF cached # NoValue THEN Returns(st, cached)
        ELSE IF env.AWS_USER THEN Returns(st, TheUser)
        ELSE IF ext.get_user \in {"ok", "retry_ok"} THEN Returns(s3, TheUser)
        ELSE IF ext.get_user = "ClientError" THEN Raises(s2, "ClientError")
        ELSE Raises(s1, ext.get_user)

\* get_username: the cached name, else the name in AWS_USER, else
\* iam.get_user(), tried a second time after unset_token() on a ClientError
get_username(st, env, ext) ==
    LET cached == st.cache.username
        s1 == Call(st, "get_user", 0)
        s2 == IF ext.get_user \in {"retry_ok", "ClientError"}
              THEN Call(s1, "get_user", 0) ELSE s1
        s3 == CacheSave(CacheSet(CacheSet(s2, "username", TheUser),
                                 "userarn", TheUser))
    IN  IF cached # NoValue THEN Returns(st, cached)
        ELSE IF env.AWS_USER THEN Returns(st, TheUser)
        ELSE IF ext.get_user \in {"ok", "retry_ok"} THEN Returns(s3, TheUser)
        ELSE IF ext.get_user = "ClientError" THEN Raises(s2, "ClientError")
        ELSE Raises(s1, ext.get_user)

\* lines 695-697: the exception is caught and only reported by logging.debug
Swallowed(st, exc) == [st EXCEPT !.log = Append(@, Ev("swallowed " \o exc, 0))]

\* get_env_creds: the kmsauth token, then the role credentials, every
\* exception of either swallowed; env.creds says whether the four AWS_*
\* variables are "absent" (creds is then unbound and reading it raises
\* NameError), "valid" or "expired" (creds = None).
\* val.role_creds = NoValue stands for [None, None, None].
get_env_creds(st, t, r, env, ext, skew) ==
    LET tok == get_kmsauth_token(st, t, r, ext, skew)
        rc == get_blessrole_credentials(tok.st, t, ext)
        nothing == [creds |-> NoValue, role_creds |-> NoValue,
                    kmsauth_token |-> NullToken]
    IN  IF ~env.use_env_creds THEN Returns(st, nothing)
        ELSE IF tok.exc # "none" THEN Returns(Swallowed(tok.st, tok.exc), nothing)
        ELSE IF env.creds = "absent"
             THEN Returns(Swallowed(tok.st, "NameError"), nothing)
        ELSE IF rc.exc # "none" THEN Returns(Swallowed(rc.st, rc.exc), nothing)
        ELSE Returns(rc.st, [creds |-> IF env.creds = "valid" THEN 1 ELSE NoValue,
                             role_creds |-> rc.val,
                             kmsauth_token |-> tok.val])

\* the private address of a bastion, the address of the target host
BastionIP == 3
TargetIP == 5

\* "{},{}".format(my_ip, bless_config.get_aws_config()['bastion_ips']) or
\* '{}'.format(my_ip)
DefaultIpList(my_ip, env) ==
    IF env.bastion_ips THEN <<my_ip, BastionIP>> ELSE <<my_ip>>

\* lines 907-951: ip_list and ip; ext.hk_name / ext.hk_ip are the answers of
\* the housekeeper lambda ("found": the bastion's private address, "none",
\* or "ClientError"), ext.dns the outcome of gethostbyname
ComputeIpList(st, t, my_ip, env, ext) ==
    LET hk == get_housekeeperrole_credentials(st, t,
                  [get_user |-> ext.hk_get_user, assume_role |-> ext.hk_assume_role,
                   AWS_USER |-> env.AWS_USER])
        s1 == hk.st
        s2 == IF env.hostname = "ipv4" THEN s1 ELSE Call(s1, "housekeeper", 1)
        named == env.hostname = "name" /\ ext.hk_name = "found"
        ip == IF named THEN NoValue ELSE TargetIP
        s3 == Call(s2, "housekeeper", 2)
        val(l) == [ip_list |-> l, ip |-> ip]
    IN  IF ~env.housekeeper
        THEN Returns(st, [ip_list |-> DefaultIpList(my_ip, env), ip |-> NoValue])
        ELSE IF hk.exc # "none" THEN Raises(s1, hk.exc)
        ELSE IF env.hostname = "name" /\ ext.hk_name = "ClientError"
             THEN Raises(s2, "ClientError")
        ELSE IF named THEN Returns(s2, val(<<my_ip, BastionIP>>))
        ELSE IF env.hostname = "name" /\ ext.dns # "ok" THEN Raises(s2, "gaierror")
        ELSE IF s2.cache.remote_ip = ip THEN Returns(s2, val(s2.cache.bastion_ips))
        ELSE IF ext.hk_ip = "ClientError" THEN Raises(s3, "ClientError")
        ELSE IF ext.hk_ip = "found" THEN Returns(s3, val(<<my_ip, BastionIP>>))
        ELSE Returns(s3, val(DefaultIpList(my_ip, env)))

\* a signing response: whether it starts with 'ssh-rsa-cert-v01@openssh.com ',
\* whether json.loads accepts it, its errorType ("" when it has none), and
\* the rest of its text, told apart by a number
SignResponses ==
    {[prefix |-> TRUE, json |-> FALSE, errorType |-> "", body |-> 1],
     [prefix |-> FALSE, json |-> FALSE, errorType |-> "", body |-> 0],
     [prefix |-> FALSE, json |-> TRUE, errorType |-> "", body |-> 0]}
        \cup {[prefix |-> FALSE, json |-> TRUE, errorType |-> e, body |-> 0] :
                e \in {"KMSAuthValidationError", "ClientError",
                       "InputValidationError", "OtherError"}}

\* a classification that takes every text json.loads rejects for a
\* certificate
ClassifyUnparsableAsCert(cert, nocache) ==
    IF cert.prefix \/ ~cert.json THEN [exc |-> "none", purge |-> FALSE]
    ELSE IF cert.errorType = "KMSAuthValidationError" /\ nocache = FALSE
         THEN [exc |-> "LambdaInvocationException", purge |-> TRUE]
    ELSE IF cert.errorType = "InputValidationError"
         THEN [exc |-> "Exception", purge |-> FALSE]
    ELSE [exc |-> "LambdaInvocationException", purge |-> FALSE]

\* a classification that purges the token whatever nocache is
ClassifyAlwaysPurge(cert, nocache) ==
    IF cert.prefix THEN [exc |-> "none", purge |-> FALSE]
    ELSE IF ~cert.json THEN [exc |-> "ValueError", purge |-> FALSE]
    ELSE IF cert.errorType = "KMSAuthValidationError"
         THEN [exc |-> "LambdaInvocationException", purge |-> TRUE]
    ELSE IF cert.errorType = "InputValidationError"
         THEN [exc |-> "Exception", purge |-> FALSE]
    ELSE [exc |-> "LambdaInvocationException", purge |-> FALSE]

\* a classification that takes the errorType InputValidationError for one
\* more error of the lambda
ClassifyInputValidationSoft(cert, nocache) ==
    IF cert.prefix THEN [exc |-> "none", purge |-> FALSE]
    ELSE IF ~cert.json THEN [exc |-> "ValueError", purge |-> FALSE]
    ELSE IF cert.errorType = "KMSAuthValidationError" /\ nocache = FALSE
         THEN [exc |-> "LambdaInvocationException", purge |-> TRUE]
    ELSE [exc |-> "LambdaInvocationException", purge |-> FALSE]

\* a classification that takes the errorType ClientError for a fatal one
ClassifyClientErrorFatal(cert, nocache) ==
    IF cert.prefix THEN [exc |-> "none", purge |-> FALSE]
    ELSE IF ~cert.json THEN [exc |-> "ValueError", purge |-> FALSE]
    ELSE IF cert.errorType = "KMSAuthValidationError" /\ nocache = FALSE
         THEN [exc |-> "LambdaInvocationException", purge |-> TRUE]
    ELSE IF cert.errorType \in {"ClientError", "InputValidationError"}
         THEN [exc |-> "Exception", purge |-> FALSE]
    ELSE [exc |-> "LambdaInvocationException", purge |-> FALSE]

\* lines 996-1020: "install", or the exception raised; purge says whether
\* clear_kmsauth_token_cache runs first
Classify(cert, nocache) ==
    IF cert.prefix THEN [exc |-> "none", purge |-> FALSE]
    ELSE IF ~cert.json THEN [exc |-> "ValueError", purge |-> FALSE]
    ELSE IF cert.errorType = "KMSAuthValidationError" /\ nocache = FALSE
         THEN [exc |-> "LambdaInvocationException", purge |-> TRUE]
    ELSE IF cert.errorType = "ClientError"
         THEN [exc |-> "LambdaInvocationException", purge |-> FALSE]
    ELSE IF cert.errorType = "InputValidationError"
         THEN [exc |-> "Exception", purge |-> FALSE]
    ELSE [exc |-> "LambdaInvocationException", purge |-> FALSE]

----------------------------------------------------------------------------
(* Specification Spec: one run of client.main or of sshclient.main from the *)
(* region loop on, every bless() call taken stage by stage                  *)

\* the configurations of a run: MaxRing aliases, hence a ring of MaxRing
\* entries, over the first two regions
MaxRing == 2
RunAliases == 1..MaxRing
RunRegions == 1..2

\* the entry point, the configured ca_backend and the nocache argument that
\* reaches bless(): client.main passes the literal True, sshclient.main
\* passes args.nocache and has no ca_backend switch
EntryPoints ==
    {[entry |-> "client", ca_backend |-> b, nocache |-> TRUE] :
        b \in {"bless", "hashicorp-vault", "other"}}
        \cup {[entry |-> "sshclient", ca_backend |-> "bless", nocache |-> n] :
                n \in BOOLEAN}

\* the sample configuration and environment: credentials taken from the
\* AWS_* variables, no AWS_USER, no housekeeper, no configured bastion_ips,
\* no BLESSFIXEDIP, no user name on the command line
BaseEnv ==
    [use_env_creds |-> TRUE, creds |-> "valid", AWS_USER |-> FALSE,
     housekeeper |-> FALSE, hostname |-> "name", bastion_ips |-> FALSE,
     fixed_ip |-> NoValue, username |-> NoValue]

\* the sample and each of its one-setting variations
RunEnvs ==
    {BaseEnv,
     [BaseEnv EXCEPT !.use_env_creds = FALSE],
     [BaseEnv EXCEPT !.creds = "absent"],
     [BaseEnv EXCEPT !.AWS_USER = TRUE],
     [BaseEnv EXCEPT !.housekeeper = TRUE],
     [BaseEnv EXCEPT !.housekeeper = TRUE, !.hostname = "ipv4"],
     [BaseEnv EXCEPT !.bastion_ips = TRUE],
     [BaseEnv EXCEPT !.fixed_ip = 1]}

\* what an earlier successful run of bless() SinceIssue ticks ago left in the
\* cache file: the user, the role credentials, the caller's address and the
\* certificate context, and the tokens of the regions in R
SinceIssue == 2

WarmCache(R) ==
    LET t == Now0 - SinceIssue
    IN  [EmptyCache EXCEPT
           !.username = TheUser,
           !.userarn = TheUser,
           !.blessrole_creds =
               make_cachable_creds(
                   [AccessKeyId |-> 1,
                    Expiration |-> t + usebless_role_session_length * TicksPerSec]),
           !.kmsauth = [r \in Regions |->
                          IF r \in R
                          THEN [token |-> <<r, t>>,
                                Expiration |->
                                    Strftime(t + (token_lifetime - token_skew * 2) * 60 * TicksPerSec)]
                          ELSE None],
           !.lastip = 1,
           !.lastipchecktime = t,
           !.certip = 1,
           !.bastion_ips = <<1>>,
           !.last_updated = Strftime(t)]

\* the cache file and the certificate file a run starts with: nothing, or
\* what an earlier run left, with or without its tokens
RunStores ==
    {[disk |-> EmptyCache,
      cert_file |-> [exists |-> FALSE, mtime |-> 0, content |-> NoContent]]}
        \cup {[disk |-> WarmCache(R),
               cert_file |-> [exists |-> TRUE, mtime |-> Now0 - SinceIssue,
                              content |-> OldCert]] : R \in {{}, RunRegions}}

Init ==
    /\ pc = "main"
    /\ region_alias \in [RunAliases -> RunRegions]
    /\ region = NoRegion
    /\ regions = <<>>
    /\ token_skew = 3
    /\ peer = NoPeer
    /\ blessconfig = [certlifetime |-> 120, ipcachelifetime |-> 120]
    /\ \E e \in EntryPoints, env \in RunEnvs :
        /\ args = [entry |-> e.entry, ca_backend |-> e.ca_backend,
                   nocache |-> e.nocache, region_code |-> NoValue, env |-> env]
        /\ userIP = UserIP(env.fixed_ip)
    /\ \E s \in RunStores :
        /\ disk = s.disk
        /\ cert_file = s.cert_file
    /\ cache = disk
    /\ serial = 1
    /\ now = Now0
    /\ OpIdle
    /\ locals = <<>>
    /\ attempted = <<>>
    /\ exit_status = -1
    /\ ssh_agent = NoValue

\* the process ends with the given status
Exit(status) ==
    /\ pc' = "exit"
    /\ exit_status' = status

\* client.py 1096-1098 / sshclient.py 139-140: the ring is built; the
\* ValueError of get_region_from_code is not caught
MainStart ==
    /\ pc = "main"
    /\ LET start_region == get_region_from_code(args.region_code, region_alias)
       IN  IF start_region = NoRegion
           THEN /\ Exit(1)
                /\ ret' = [exc |-> "ValueError", val |-> 0]
                /\ UNCHANGED regions
           ELSE /\ regions' = get_regions(start_region, region_alias)
                /\ pc' = "loop"
                /\ UNCHANGED <<ret, exit_status>>
    /\ UNCHANGED <<region_alias, region, token_skew, peer, storevars, now, log, pre,
                   envvars, args, locals, attempted, ssh_agent>>

\* the body of the try statement up to the call of bless(): "bless", or the
\* exception raised instead (args has no nocache attribute in client.main)
Dispatch(a) ==
    IF a.entry = "sshclient" THEN "bless"
    ELSE IF a.ca_backend = "hashicorp-vault" THEN "AttributeError"
    ELSE IF a.ca_backend = "bless" THEN "bless"
    ELSE "SystemExit"

\* the record of an attempt: its region, and, once it is over, the exception
\* that ended it ("none" when bless() returned), whether check_fresh_cert
\* returned True, and how often the certificate file was written
Attempt(r) == [region |-> r, exc |-> "pending", fresh |-> FALSE, installed |-> 0]

\* the for statement: the next region of the ring is taken, or the ring is
\* exhausted and the run ends with 'Could not sign SSH public key.' (client)
\* or with blessclient_output == [] (sshclient), exit status 1
LoopNext ==
    /\ pc = "loop"
    /\ IF Len(attempted) < Len(regions)
       THEN LET r == regions[Len(attempted) + 1]
                d == Dispatch(args)
            IN  /\ region' = r
                /\ attempted' = Append(attempted, Attempt(r))
                /\ IF d = "bless"
                   THEN pc' = "bless" /\ UNCHANGED ret
                   ELSE pc' = "handle" /\ ret' = [exc |-> d, val |-> 0]
                /\ UNCHANGED exit_status
       ELSE /\ Exit(1)
            /\ UNCHANGED <<region, attempted, ret>>
    /\ UNCHANGED <<region_alias, regions, token_skew, peer, storevars, now, log, pre,
                   envvars, args, locals, ssh_agent>>

\* the exceptions each loop catches to go on with the next region
Retryable(entry) ==
    IF entry = "client"
    THEN {"ClientError", "LambdaInvocationException", "ConnectionError",
          "EndpointConnectionError"}
    ELSE {"SystemExit"}

\* the loop goes on after a successful attempt as it does after a failed one
LoopStepNoBreak(entry, exc) ==
    IF exc = "none" \/ exc \in Retryable(entry) THEN "continue" ELSE "raise"

\* what the try statement does with the outcome of the attempt: "break",
\* "continue" with the next region, or "raise" to the top level
LoopStep(entry, exc) ==
    IF exc = "none" THEN "break"
    ELSE IF exc \in Retryable(entry) THEN "continue"
    ELSE "raise"

\* client.py 1109-1124 / sshclient.py 144-149: the outcome of the attempt is
\* recorded and the frame of the call is gone; after break the run ends with
\* status 0 (sshclient goes on to run ssh), an exception that is not caught
\* ends it with status 1
Handle ==
    /\ pc = "handle"
    /\ attempted' = [attempted EXCEPT
                        ![Len(attempted)].exc = ret.exc,
                        ![Len(attempted)].fresh = Ev("fresh", 1) \in Range(log),
                        ![Len(attempted)].installed = Count(log, "write_cert")]
    /\ LET step == LoopStep(args.entry, ret.exc)
       IN  IF step = "break" THEN Exit(0)
           ELSE IF step = "continue" THEN pc' = "loop" /\ UNCHANGED exit_status
           ELSE Exit(1)
    /\ locals' = <<>>
    /\ log' = <<>>
    /\ ret' = [exc |-> "none", val |-> 0]
    /\ pre' = [op |-> "none", arg |-> 0, cache |-> EmptyCache,
               disk |-> EmptyCache, now |-> Now0]
    /\ UNCHANGED <<cfgvars, storevars, now, envvars, args, ssh_agent>>

\* what the ip_urls answer during a run: the address the warm cache holds,
\* another address, or nothing usable
RunResponses == [1..MaxUrls -> {NoValue, 1, 2}]

\* the frame of the bless() call in progress
Cur ==
    [cache |-> cache, disk |-> disk, serial |-> serial, log |-> log,
     userIP |-> userIP]

Commit(st) ==
    /\ cache' = st.cache
    /\ disk' = st.disk
    /\ serial' = st.serial
    /\ log' = st.log
    /\ userIP' = st.userIP

\* bless() ends: with an exception, or returning {"username": username}
Fail(exc) ==
    /\ pc' = "handle"
    /\ ret' = [exc |-> exc, val |-> 0]

Return(v) ==
    /\ pc' = "handle"
    /\ ret' = [exc |-> "none", val |-> v]

\* lines 874-887: a new BlessCache on the cache file, update_client, a new
\* UserIP and its getIP, get_username unless a user name was passed in
BlessSetup ==
    /\ pc = "bless"
    /\ \E responses \in RunResponses,
          get_user \in {"ok", "retry_ok", "ClientError"} :
        LET st0 == [FrameIP(disk, disk, serial, UserIP(args.env.fixed_ip))
                      EXCEPT !.log = <<Ev("bless", region)>>]
            ip == getIP(update_client(st0, now), now,
                        blessconfig.ipcachelifetime, responses)
            un == IF args.env.username # NoValue
                  THEN Returns(ip.st, args.env.username)
                  ELSE get_username(ip.st, args.env, [get_user |-> get_user])
            out == IF ip.exc # "none" THEN ip ELSE un
        IN  /\ Commit(out.st)
            /\ IF out.exc # "none"
               THEN Fail(out.exc) /\ locals' = <<>>
               ELSE /\ pc' = "creds"
                    /\ locals' = [my_ip |-> ip.val, username |-> un.val]
                    /\ UNCHANGED ret
    /\ pre' = [op |-> "bless", arg |-> region, cache |-> disk, disk |-> disk,
               now |-> now]
    /\ UNCHANGED <<cfgvars, now, blessconfig, cert_file, args, attempted,
                   exit_status, ssh_agent>>

\* lines 898-905: get_env_creds, and sys.exit(1) when role_creds is None
BlessCreds ==
    /\ pc = "creds"
    /\ \E mint \in {"ok", "ServiceConnectionError"},
          get_user \in {"ok", "ClientError"},
          assume_role \in {"ok", "ClientError", "EndpointConnectionError"} :
        LET ext == [mint |-> mint, get_user |-> get_user,
                    assume_role |-> assume_role, AWS_USER |-> args.env.AWS_USER]
            out == get_env_creds(Cur, now, region, args.env, ext, token_skew)
        IN  /\ Commit(out.st)
            /\ IF out.val.role_creds = NoValue
               THEN Fail("SystemExit") /\ UNCHANGED locals
               ELSE /\ pc' = "ip_list"
                    /\ locals' = [my_ip |-> locals.my_ip,
                                  username |-> locals.username,
                                  role_creds |-> out.val.role_creds,
                                  kmsauth_token |-> out.val.kmsauth_token]
                    /\ UNCHANGED ret
    /\ UNCHANGED <<cfgvars, now, pre, blessconfig, cert_file, args, attempted,
                   exit_status, ssh_agent>>

\* lines 907-951: ip_list and ip; an exception of the housekeeper branch is
\* raised again
BlessIpList ==
    /\ pc = "ip_list"
    /\ \E hk_get_user \in {"ok", "ClientError"},
          hk_assume_role \in {"ok", "ClientError"},
          hk_name \in {"found", "none", "ClientError"},
          hk_ip \in {"found", "none", "ClientError"},
          dns \in {"ok", "gaierror"} :
        LET ext == [hk_get_user |-> hk_get_user, hk_assume_role |-> hk_assume_role,
                    hk_name |-> hk_name, hk_ip |-> hk_ip, dns |-> dns]
            out == ComputeIpList(Cur, now, locals.my_ip, args.env, ext)
        IN  /\ Commit(out.st)
            /\ IF out.exc # "none"
               THEN Fail(out.exc) /\ UNCHANGED locals
               ELSE /\ pc' = "fresh"
                    /\ locals' = [my_ip |-> locals.my_ip,
                                  username |-> locals.username,
                                  role_creds |-> locals.role_creds,
                                  kmsauth_token |-> locals.kmsauth_token,
                                  ip_list |-> out.val.ip_list,
                                  ip |-> out.val.ip]
                    /\ UNCHANGED ret
    /\ UNCHANGED <<cfgvars, now, pre, blessconfig, cert_file, args, attempted,
                   exit_status, ssh_agent>>

\* lines 953-956: unless nocache is True, a fresh certificate ends bless()
BlessFresh ==
    /\ pc = "fresh"
    /\ IF args.nocache # TRUE
       THEN \E responses \in RunResponses :
              LET out == check_fresh_cert(Cur, now, cert_file, blessconfig,
                                          locals.ip_list, responses)
              IN  IF out.exc # "none"
                  THEN Commit(out.st) /\ Fail(out.exc)
                  ELSE /\ Commit(Call(out.st, "fresh", IF out.val THEN 1 ELSE 0))
                       /\ IF out.val
                          THEN Return(locals.username)
                          ELSE pc' = "sign" /\ UNCHANGED ret
       ELSE /\ pc' = "sign"
            /\ UNCHANGED <<storevars, log, userIP, ret>>
    /\ UNCHANGED <<cfgvars, now, pre, blessconfig, cert_file, args, locals,
                   attempted, exit_status, ssh_agent>>

\* outcomes of bless_lambda.getCert: a response, or the exception raised
SignExceptions ==
    {"ClientError", "EndpointConnectionError", "LambdaInvocationException"}

\* lines 958-992: the context is cached and saved, the public key read
\* (generated when the file is missing, refused unless it is an RSA key),
\* the payload built and sent
BlessSign ==
    /\ pc = "sign"
    /\ \E public_key \in {"ssh-rsa ", "missing", "other"},
          exc \in SignExceptions \cup {"none"}, cert \in SignResponses :
        LET s1 == CacheSave(CacheSet(CacheSet(Cur, "bastion_ips", locals.ip_list),
                                     "remote_ip", locals.ip))
            s2 == IF public_key = "missing" THEN Call(s1, "keygen", 0) ELSE s1
            s3 == Call(s2, "sign", region)
            payload == [bastion_user |-> locals.username,
                        bastion_user_ip |-> locals.my_ip,
                        bastion_ips |-> locals.ip_list]
        IN  IF public_key = "other"
            THEN Commit(s2) /\ Fail("Exception") /\ UNCHANGED locals
            ELSE /\ Commit(s3)
                 /\ IF exc # "none"
                    THEN /\ Fail(exc)
                         /\ cert = CHOOSE c \in SignResponses : TRUE
                         /\ UNCHANGED locals
                    ELSE /\ pc' = "install"
                         /\ locals' = [my_ip |-> locals.my_ip,
                                       username |-> locals.username,
                                       kmsauth_token |-> locals.kmsauth_token,
                                       ip_list |-> locals.ip_list,
                                       payload |-> payload,
                                       cert |-> cert]
                         /\ UNCHANGED ret
    /\ UNCHANGED <<cfgvars, now, pre, blessconfig, cert_file, args, attempted,
                   exit_status, ssh_agent>>

\* ssh_agent_remove_bless: a failing ssh-add is only reported
ssh_agent_remove_bless(st) == Call(st, "agent_remove", 0)

\* ssh_agent_add_bless: subprocess.check_call raises CalledProcessError when
\* ssh-add ends with a non-zero status (no agent is running, say)
SshAddOutcomes == {"ok", "CalledProcessError"}
ssh_agent_add_bless(st, ssh_add) ==
    IF ssh_add = "ok" THEN Returns(Call(st, "agent_add", 0), 0)
    ELSE Raises(Call(st, "agent_add", 0), ssh_add)

\* lines 996-1042: a response that is no certificate raises (after the purge
\* of the region's token, for a KMSAuthValidationError with nocache False);
\* a certificate is written to the certificate file between the removal of
\* the identity from the SSH agent and, if update_sshagent is set, its
\* addition; then 'certip' is cached and saved, unless ssh-add has failed
BlessInstall ==
    /\ pc = "install"
    /\ LET c == Classify(locals.cert, args.nocache)
       IN  IF c.exc # "none"
           THEN /\ Commit(IF c.purge
                          THEN clear_kmsauth_token_cache(Cur, region).st
                          ELSE Cur)
                /\ Fail(c.exc)
                /\ UNCHANGED <<cert_file, ssh_agent>>
           ELSE \E update_sshagent \in BOOLEAN, ssh_add \in SshAddOutcomes :
                  LET s1 == Call(ssh_agent_remove_bless(Cur), "write_cert", 0)
                      add == IF update_sshagent
                             THEN ssh_agent_add_bless(s1, ssh_add)
                             ELSE Returns(s1, 0)
                  IN  /\ ~update_sshagent => ssh_add = "ok"
                      /\ cert_file' = [exists |-> TRUE, mtime |-> now,
                                       content |-> locals.cert]
                      /\ IF add.exc # "none"
                         THEN /\ Commit(add.st)
                              /\ ssh_agent' = NoValue
                              /\ Fail(add.exc)
                         ELSE /\ Commit(CacheSave(CacheSet(add.st, "certip",
                                                           locals.my_ip)))
                              /\ ssh_agent' = IF update_sshagent THEN region
                                              ELSE NoValue
                              /\ Return(locals.username)
    /\ UNCHANGED <<cfgvars, now, pre, blessconfig, locals, args, attempted,
                   exit_status>>

Next ==
    \/ MainStart
    \/ LoopNext
    \/ BlessSetup
    \/ BlessCreds
    \/ BlessIpList
    \/ BlessFresh
    \/ BlessSign
    \/ BlessInstall
    \/ Handle

Spec == Init /\ [][Next]_vars

\* runs of the two loops with ipcachelifetime so short that the address an
\* earlier run cached is stale when bless() asks for the caller's address
StaleConfig == [certlifetime |-> 120, ipcachelifetime |-> 1]

InitStale ==
    /\ pc = "main"
    /\ region_alias \in [RunAliases -> RunRegions]
    /\ region = NoRegion
    /\ regions = <<>>
    /\ token_skew = 3
    /\ peer = NoPeer
    /\ blessconfig = StaleConfig
    /\ \E e \in {"client", "sshclient"}, n \in BOOLEAN :
        args = [entry |-> e, ca_backend |-> "bless",
                nocache |-> IF e = "client" THEN TRUE ELSE n,
                region_code |-> NoValue, env |-> BaseEnv]
    /\ userIP = UserIP(NoValue)
    /\ \E s \in RunStores :
        /\ disk = s.disk
        /\ cert_file = s.cert_file
    /\ cache = disk
    /\ serial = 1
    /\ now = Now0
    /\ OpIdle
    /\ locals = <<>>
    /\ attempted = <<>>
    /\ exit_status = -1
    /\ ssh_agent = NoValue

SpecStale == InitStale /\ [][Next]_vars

-----------------------------------------------------------------------------
(* vault_bless, stage by stage                                             *)

\* the address the caller has during a call: BLESSFIXEDIP, or the first
\* usable answer of the ip_urls (NoValue when none answers)
CallerIP(responses, fixed_ip) ==
    IF fixed_ip # NoValue THEN fixed_ip
    ELSE RefreshLoop(FrameIP(EmptyCache, EmptyCache, 0, UserIP(NoValue)),
                     responses, 1, NoValue).ip

\* lines 744-774: a new BlessCache and UserIP; unless nocache is True, a
\* fresh certificate ends the process with sys.exit(0)
VaultFresh ==
    /\ pc = "vault"
    /\ \E responses \in RunResponses :
        LET st0 == [FrameIP(disk, disk, serial, UserIP(args.env.fixed_ip))
                      EXCEPT !.log = <<Ev("vault_bless", 0)>>]
            out == check_fresh_cert(st0, now, cert_file, blessconfig, None,
                                    responses)
        IN  /\ locals' = [my_ip |-> CallerIP(responses, args.env.fixed_ip)]
            /\ IF args.nocache = TRUE
               THEN Commit(st0) /\ pc' = "vault_auth" /\ UNCHANGED ret
               ELSE IF out.exc # "none" THEN Commit(out.st) /\ Fail(out.exc)
               ELSE /\ Commit(Call(out.st, "fresh", IF out.val THEN 1 ELSE 0))
                    /\ IF out.val
                       THEN Fail("SystemExit")
                       ELSE pc' = "vault_auth" /\ UNCHANGED ret
    /\ pre' = [op |-> "vault_bless", arg |-> 0, cache |-> disk, disk |-> disk,
               now |-> now]
    /\ UNCHANGED <<cfgvars, now, blessconfig, cert_file, args, attempted,
                   exit_status, ssh_agent>>

\* lines 783-794: the public key is read (no key is generated here) and
\* refused unless it is an RSA key; then auth_okta
VaultAuth ==
    /\ pc = "vault_auth"
    /\ \E public_key \in {"ssh-rsa ", "missing", "other"},
          login \in {"ok", "InvalidRequest"},
          username \in Usernames :
        LET out == auth_okta(Cur, now, [login |-> login, username |-> username])
        IN  IF public_key # "ssh-rsa "
            THEN /\ login = "ok" /\ username = <<"j", ".", "d", "o", "e">>
                 /\ Fail(IF public_key = "missing" THEN "FileNotFoundError"
                         ELSE "Exception")
                 /\ UNCHANGED <<storevars, log, userIP, locals>>
            ELSE /\ Commit(out.st)
                 /\ IF out.exc # "none"
                    THEN Fail(out.exc) /\ UNCHANGED locals
                    ELSE /\ pc' = "vault_sign"
                         /\ locals' = [my_ip |-> locals.my_ip,
                                       token |-> out.val.token,
                                       linux_username |-> out.val.username]
                         /\ UNCHANGED ret
    /\ UNCHANGED <<cfgvars, now, pre, blessconfig, cert_file, args, attempted,
                   exit_status, ssh_agent>>

\* an authentication after Forbidden that uses the cache of the call
auth_okta_reuse(st, t, ext) == auth_okta(st, t, ext)

\* line 808-809: auth_okta on a new BlessCache made with nocache True, which
\* does not give the cached session back
auth_okta_recache(st, t, ext) ==
    auth_okta([st EXCEPT !.cache.vault_creds = None], t, ext)

\* outcomes of vault_ca.getCert: a response, or the exception raised
VaultOutcomes == {"response", "Forbidden", "VaultError"}

\* lines 796-820: the payload is sent; after hvac.exceptions.Forbidden the
\* user is authenticated again and the payload sent a second time. The log
\* has a "forbidden" event after each signing call answered that way
VaultSign ==
    /\ pc = "vault_sign"
    /\ \E first \in VaultOutcomes, second \in VaultOutcomes,
          login \in {"ok", "InvalidRequest"}, cert \in SignResponses :
        LET s1 == Call(Cur, "sign", 0)
            again == auth_okta_recache(Call(s1, "forbidden", 0), now,
                                       [login |-> login,
                                        username |-> <<"j", ".", "d", "o", "e">>])
            s2 == Call(again.st, "sign", 0)
            signed(st, token, name) ==
                /\ Commit(st)
                /\ pc' = "vault_install"
                /\ locals' = [my_ip |-> locals.my_ip, token |-> token,
                              linux_username |-> name,
                              payload |-> [valid_principals |-> name,
                                           ttl |-> blessconfig.certlifetime],
                              cert |-> cert]
                /\ UNCHANGED ret
            failed(st, exc) ==
                /\ Commit(st)
                /\ Fail(exc)
                /\ cert = CHOOSE c \in SignResponses : TRUE
                /\ UNCHANGED locals
        IN  IF first = "response"
            THEN /\ second = "response" /\ login = "ok"
                 /\ signed(s1, locals.token, locals.linux_username)
            ELSE IF first # "Forbidden"
            THEN second = "response" /\ login = "ok" /\ failed(s1, first)
            ELSE IF again.exc # "none"
            THEN second = "response" /\ failed(again.st, again.exc)
            ELSE IF second = "response"
            THEN signed(s2, again.val.token, again.val.username)
            ELSE IF second = "Forbidden"
            THEN failed(Call(s2, "forbidden", 0), second)
            ELSE failed(s2, second)
    /\ UNCHANGED <<cfgvars, now, pre, blessconfig, cert_file, args, attempted,
                   exit_status, ssh_agent>>

\* lines 825-849: the classification of bless(), without the purge
ClassifyVault(cert, nocache) == [Classify(cert, nocache) EXCEPT !.purge = FALSE]

\* lines 825-862: a response that is no certificate raises; a certificate is
\* written between the removal of the identity from the SSH agent and its
\* addition; nothing is cached
VaultInstall ==
    /\ pc = "vault_install"
    /\ LET c == ClassifyVault(locals.cert, args.nocache)
       IN  IF c.exc # "none"
           THEN /\ Fail(c.exc)
                /\ UNCHANGED <<storevars, log, userIP, cert_file, ssh_agent>>
           ELSE \E ssh_add \in SshAddOutcomes :
                  LET s1 == Call(ssh_agent_remove_bless(Cur), "write_cert", 0)
                      add == ssh_agent_add_bless(s1, ssh_add)
                  IN  /\ Commit(add.st)
                      /\ cert_file' = [exists |-> TRUE, mtime |-> now,
                                       content |-> locals.cert]
                      /\ IF add.exc # "none"
                         THEN ssh_agent' = NoValue /\ Fail(add.exc)
                         ELSE ssh_agent' = region /\ Return(NoValue)
    /\ UNCHANGED <<cfgvars, now, pre, blessconfig, locals, args, attempted,
                   exit_status>>

-----------------------------------------------------------------------------
(* Specification SpecIssue: one call of bless() or of vault_bless(), and   *)
(* the freshness check of a later run                                       *)

\* certlifetime and ipcachelifetime of the call, seconds: the certificate is
\* fresh for (17 - 15) seconds, the address is cached for one
IssueConfig == [certlifetime |-> 17, ipcachelifetime |-> 1]

\* the later run starts at most MaxDelay ticks after the call
MaxDelay == 4

InitIssue ==
    /\ pc \in {"bless", "vault"}
    /\ region_alias = [a \in {1} |-> 1]
    /\ region = 1
    /\ regions = <<1>>
    /\ token_skew = 3
    /\ peer = NoPeer
    /\ blessconfig = IssueConfig
    /\ \E nocache \in BOOLEAN,
          env \in {BaseEnv, [BaseEnv EXCEPT !.fixed_ip = 1],
                   [BaseEnv EXCEPT !.bastion_ips = TRUE],
                   [BaseEnv EXCEPT !.housekeeper = TRUE]} :
        /\ args = [entry |-> "call",
                   ca_backend |-> IF pc = "bless" THEN "bless"
                                  ELSE "hashicorp-vault",
                   nocache |-> nocache, region_code |-> NoValue, env |-> env]
        /\ userIP = UserIP(env.fixed_ip)
    /\ \E s \in RunStores :
        /\ disk = s.disk
        /\ cert_file = s.cert_file
    /\ cache = disk
    /\ serial = 1
    /\ now = Now0
    /\ OpIdle
    /\ locals = <<>>
    /\ attempted = <<Attempt(1)>>
    /\ exit_status = -1
    /\ ssh_agent = NoValue

\* the call has written a certificate and returned
Issued ==
    /\ pc = "handle"
    /\ ret.exc = "none"
    /\ Count(log, "write_cert") = 1

\* a later run, delay ticks after the issuance and from the same address,
\* checks the certificate as its backend does: bless() with the ip_list it
\* computes again, vault_bless() without one; ret.val is 1 for True
LaterCheck ==
    /\ Issued
    /\ \E delay \in 0..MaxDelay, responses \in RunResponses :
        LET ip_list == IF args.ca_backend = "bless" THEN locals.ip_list
                       ELSE None
            st0 == FrameIP(disk, disk, serial, UserIP(args.env.fixed_ip))
            out == check_fresh_cert(st0, now + delay, cert_file, blessconfig,
                                    ip_list, responses)
        IN  /\ CallerIP(responses, args.env.fixed_ip) = locals.my_ip
            /\ now' = now + delay
            /\ Commit(out.st)
            /\ pc' = "checked"
            /\ ret' = [exc |-> out.exc,
                       val |-> IF out.exc = "none" /\ out.val THEN 1 ELSE 0]
    /\ UNCHANGED <<cfgvars, pre, blessconfig, cert_file, args, locals,
                   attempted, exit_status, ssh_agent>>

NextIssue ==
    \/ BlessSetup
    \/ BlessCreds
    \/ BlessIpList
    \/ BlessFresh
    \/ BlessSign
    \/ BlessInstall
    \/ VaultFresh
    \/ VaultAuth
    \/ VaultSign
    \/ VaultInstall
    \/ LaterCheck

SpecIssue == InitIssue /\ [][NextIssue]_vars

-----------------------------------------------------------------------------
(* Specification SpecRuns: bless() called again and again on one cache file *)
(* and one certificate file                                                 *)

\* the number of calls of bless() in a sequence
MaxRuns == 2

\* the environments of the sequence: the sample, and the housekeeper branch
\* with a host name as the target
SequenceEnvs == {BaseEnv, [BaseEnv EXCEPT !.housekeeper = TRUE]}

\* what is kept of a call that is over: the exception that ended it, whether
\* check_fresh_cert returned True, how often the certificate file was
\* written, and, if it was written, the bastion_ips of the payload sent to
\* the signing lambda (lines 983-992)
RunRecord ==
    [exc |-> ret.exc,
     fresh |-> Ev("fresh", 1) \in Range(log),
     installed |-> Count(log, "write_cert"),
     bastion_ips |-> IF Count(log, "write_cert") > 0
                     THEN locals.payload.bastion_ips ELSE None]

InitRuns ==
    /\ pc = "bless"
    /\ region_alias = [a \in {1} |-> 1]
    /\ region = 1
    /\ regions = <<1>>
    /\ token_skew = 3
    /\ peer = NoPeer
    /\ blessconfig = StaleConfig
    /\ \E env \in SequenceEnvs :
        /\ args = [entry |-> "call", ca_backend |-> "bless", nocache |-> FALSE,
                   region_code |-> NoValue, env |-> env]
        /\ userIP = UserIP(env.fixed_ip)
    /\ \E s \in RunStores :
        /\ disk = s.disk
        /\ cert_file = s.cert_file
    /\ cache = disk
    /\ serial = 1
    /\ now = Now0
    /\ OpIdle
    /\ locals = <<>>
    /\ attempted = <<>>
    /\ exit_status = -1
    /\ ssh_agent = NoValue

\* bless() has returned or raised; the caller calls it again, at most
\* MaxDelay ticks later, the frame of the call that is over being gone
RunAgain ==
    /\ pc = "handle"
    /\ Len(attempted) < MaxRuns - 1
    /\ \E delay \in 0..MaxDelay : now' = now + delay
    /\ attempted' = Append(attempted, RunRecord)
    /\ pc' = "bless"
    /\ locals' = <<>>
    /\ log' = <<>>
    /\ ret' = [exc |-> "none", val |-> 0]
    /\ pre' = [op |-> "none", arg |-> 0, cache |-> EmptyCache,
               disk |-> EmptyCache, now |-> Now0]
    /\ UNCHANGED <<cfgvars, storevars, envvars, args, exit_status, ssh_agent>>

NextRuns ==
    \/ BlessSetup
    \/ BlessCreds
    \/ BlessIpList
    \/ BlessFresh
    \/ BlessSign
    \/ BlessInstall
    \/ RunAgain

SpecRuns == InitRuns /\ [][NextRuns]_vars

----------------------------------------------------------------------------
(* Claims about the region loop and the freshness short-circuit            *)

\* C2: in one run of the region loop of client.main no AWS region is
\* attempted more than once, whatever REGION_ALIAS is, two aliases of one
\* region included.
C2_NoRegionAttemptedTwice ==
    args.entry = "client" =>
        \A i, j \in 1..Len(attempted) :
            i # j => attempted[i].region # attempted[j].region

\* the failures after which the loop of client.main goes on
SoftFailures ==
    {"ClientError", "LambdaInvocationException", "ConnectionError",
     "EndpointConnectionError"}

\* the attempts made so far follow the ring, one per entry of the ring, and
\* every attempt but the last has failed softly
C3_OneAttemptPerEntry ==
    /\ Len(attempted) <= Len(regions)
    /\ \A i \in 1..Len(attempted) :
        /\ attempted[i].region = regions[i]
        /\ i < Len(attempted) => attempted[i].exc \in SoftFailures

\* a run that has ended: status 0 exactly after a successful last attempt;
\* the Failed outcome (status 1, no attempt ended by a hard failure) only
\* with every entry of the ring attempted and failed softly
C3_Outcome ==
    pc = "exit" =>
        LET n == Len(attempted)
            success == n > 0 /\ attempted[n].exc = "none"
            failed == /\ exit_status # 0
                      /\ n > 0 => attempted[n].exc \in SoftFailures
        IN  /\ exit_status # -1
            /\ exit_status = 0 <=> success
            /\ failed => /\ n = Len(regions)
                         /\ \A i \in 1..n : attempted[i].exc \in SoftFailures

\* the position in bless() and in the loop, counted from the end: the
\* statements still ahead of the call in progress
StageRank ==
    [loop |-> 0, handle |-> 1, install |-> 2, sign |-> 3, fresh |-> 4,
     ip_list |-> 5, creds |-> 6, bless |-> 7]

\* a bound on the steps left: the entries of the ring not yet taken count
\* for a whole attempt each
StepsLeft ==
    IF pc = "exit" THEN -1
    ELSE IF pc = "main" THEN (MaxRing + 1) * 8
    ELSE (Len(regions) - Len(attempted)) * 8 + StageRank[pc]

\* C3: the region loop of client.main always terminates, after at most one
\* attempt per entry of the ring: it stops at the first successful attempt
\* (no later region is attempted, exit status 0) and reaches the Failed
\* outcome (non-zero exit status) only after every entry of the ring has
\* been attempted and has failed softly.  Termination: a run that has not
\* ended can take a step, and every step lowers StepsLeft, which is never
\* below -1.
C3_LoopTerminates ==
    /\ [](args.entry = "client" =>
            /\ C3_OneAttemptPerEntry
            /\ C3_Outcome
            /\ StepsLeft >= -1
            /\ pc # "exit" => ENABLED Next)
    /\ [][args.entry = "client" => StepsLeft' < StepsLeft]_vars

\* client.main has taken the whole ring, every attempt failed softly, and
\* has ended with 'Could not sign SSH public key.'
C3_Witness ==
    /\ args.entry = "client"
    /\ pc = "exit"
    /\ exit_status = 1
    /\ Len(attempted) = Len(regions)
    /\ Len(attempted) > 1
    /\ \A i \in 1..Len(attempted) : attempted[i].exc \in SoftFailures

\* C5: in a run of bless() without nocache in which check_fresh_cert
\* returns True, no signing call and no auth-token mint call is made, and
\* the certificate file and the SSH agent are not touched.
C5_FreshShortCircuit ==
    (pc = "handle" /\ args.nocache = FALSE /\ Ev("fresh", 1) \in Range(log)) =>
        /\ Count(log, "sign") = 0
        /\ Count(log, "mint") = 0
        /\ Count(log, "write_cert") = 0
        /\ Count(log, "agent_remove") = 0
        /\ Count(log, "agent_add") = 0

-----------------------------------------------------------------------------
(* Failures of an attempt and the region loop                              *)

\* the minting of the token failed with ServiceConnectionError in the call
\* in progress (get_kmsauth_token raises it as LambdaInvocationException)
MintFailed == Ev("swallowed LambdaInvocationException", 0) \in Range(log)

\* the token cache is as it was when the step began
C11_TokensKept == [][(pc = "creds" /\ MintFailed') => cache' = cache]_vars

\* C11: in client.main a ServiceConnectionError raised while the token is
\* minted leaves the token cache unchanged and is followed by the next region
\* of the ring: the run does not end there
C11_MintFailureRetried ==
    [][/\ (pc = "creds" /\ MintFailed') => cache' = cache
       /\ (pc = "handle" /\ args.entry = "client" /\ MintFailed) => pc' = "loop"]_vars

\* a signature rejection (ClientError) or a connection error
RejectedOrUnreachable == {"ClientError", "ConnectionError", "EndpointConnectionError"}

\* one of them arose in the call in progress: it ended the call, or it was
\* raised while the role was assumed and get_env_creds swallowed it
SoftFailureArose ==
    \E e \in RejectedOrUnreachable :
        ret.exc = e \/ Ev("swallowed " \o e, 0) \in Range(log)

\* C12: in client.main an attempt in which a signature rejection or a
\* connection error arises (role assumption, identity lookup or signing
\* invocation) is followed by an attempt in the next region of the ring,
\* when one remains
C12_SoftFailureAdvances ==
    [][(/\ pc = "handle"
        /\ args.entry = "client"
        /\ SoftFailureArose
        /\ Len(attempted) < Len(regions)) => pc' = "loop"]_vars

\* the part of C12 that the loop itself decides: the exception reached it
C12_RaisedAdvances ==
    [][(/\ pc = "handle"
        /\ args.entry = "client"
        /\ ret.exc \in RejectedOrUnreachable) => pc' = "loop"]_vars

-----------------------------------------------------------------------------
(* The classification of the signing response                              *)

\* the signing response of the call in progress, once it has been received
HasResponse == "cert" \in DOMAIN locals

\* the response is a JSON object whose errorType is one of those given
ResponseIs(errorTypes) ==
    /\ HasResponse
    /\ ~locals.cert.prefix
    /\ locals.cert.json
    /\ locals.cert.errorType \in errorTypes

\* nothing is installed by the step: the certificate file and the SSH agent
\* stay as they are and neither is called
NothingInstalled ==
    /\ cert_file' = cert_file
    /\ ssh_agent' = ssh_agent
    /\ Count(log', "write_cert") = 0
    /\ Count(log', "agent_add") = 0

\* the loop takes the next entry of the ring when one remains
TakesNextRegion ==
    (pc = "loop" /\ Len(attempted) < Len(regions)) =>
        /\ pc' \in {"bless", "handle"}
        /\ Len(attempted') = Len(attempted) + 1
        /\ attempted'[Len(attempted')].region = regions[Len(attempted')]

\* C13: in client.main a signing response with errorType ClientError or
\* KMSAuthValidationError ends the attempt with nothing installed, and the
\* loop goes on to the next region of the ring when one remains
C13_ErrorResponseAdvances ==
    [][/\ (/\ pc = "install"
           /\ args.entry = "client"
           /\ ResponseIs({"ClientError", "KMSAuthValidationError"}))
           => (pc' = "handle" /\ NothingInstalled)
       /\ (/\ pc = "handle"
           /\ args.entry = "client"
           /\ ResponseIs({"ClientError", "KMSAuthValidationError"}))
           => (pc' = "loop" /\ exit_status' = -1)
       /\ TakesNextRegion]_vars

\* client.main has classified a ClientError response of the first region,
\* nothing was written and a region remains
C13_Witness ==
    /\ pc = "handle"
    /\ args.entry = "client"
    /\ ResponseIs({"ClientError"})
    /\ ret.exc = "LambdaInvocationException"
    /\ Count(log, "write_cert") = 0
    /\ Len(attempted) < Len(regions)

\* the run ends at once with a failure status: no entry of the ring is taken
\* after the attempt in progress
RunEndsHere ==
    /\ pc' = "exit"
    /\ exit_status' = 1
    /\ Len(attempted') = Len(attempted)

\* C14: a signing response with errorType InputValidationError ends the
\* whole run at once: no further region of the ring is attempted, no
\* certificate is written and the SSH agent is not updated
C14_InputValidationFatal ==
    [][/\ (pc = "install" /\ ResponseIs({"InputValidationError"}))
           => (pc' = "handle" /\ NothingInstalled)
       /\ (pc = "handle" /\ ResponseIs({"InputValidationError"}))
           => (RunEndsHere /\ cert_file' = cert_file /\ ssh_agent' = ssh_agent)]_vars

\* an InputValidationError response has been classified in the first region
\* of a ring that holds another one
C14_Witness ==
    /\ pc = "handle"
    /\ ResponseIs({"InputValidationError"})
    /\ ret.exc = "Exception"
    /\ Count(log, "write_cert") = 0
    /\ Len(attempted) < Len(regions)

\* the response neither starts with the prefix nor carries one of the three
\* errorTypes the classification names
ResponseIsOther ==
    /\ HasResponse
    /\ ~locals.cert.prefix
    /\ \/ ~locals.cert.json
       \/ locals.cert.errorType \notin {"KMSAuthValidationError", "ClientError",
                                        "InputValidationError"}

\* C15: a signing response without the prefix that is neither a
\* KMSAuthValidationError, a ClientError nor an InputValidationError (another
\* errorType, a JSON object without errorType, a body that is not JSON)
\* raises a fatal error: the run ends and no further region is attempted
C15_OtherResponseFatal ==
    [][(pc = "handle" /\ ResponseIsOther) => RunEndsHere]_vars

\* the part of C15 that holds: a body that is not JSON ends the run
C15_UnparsableFatal ==
    [][(pc = "handle" /\ HasResponse /\ ~locals.cert.prefix /\ ~locals.cert.json)
           => RunEndsHere]_vars

\* the entry clear_kmsauth_token_cache leaves under 'kmsauth-<region>'
PurgedEntry == [token |-> NullToken, Expiration |-> PurgedStamp]

\* C16: on a KMSAuthValidationError response with nocache False bless()
\* purges the cached token of exactly the attempted region and saves the
\* cache before the retryable error is raised, the entries of the other
\* regions staying as they are; with nocache True no entry is purged
C16_PurgeAttemptedRegion ==
    [][(pc = "install" /\ ResponseIs({"KMSAuthValidationError"})) =>
          /\ ret'.exc = "LambdaInvocationException"
          /\ IF args.nocache = FALSE
             THEN /\ cache'.kmsauth[region] = PurgedEntry
                  /\ \A r \in Regions \ {region} :
                        cache'.kmsauth[r] = cache.kmsauth[r]
                  /\ disk' = cache'
                  /\ Count(log', "save") = Count(log, "save") + 1
             ELSE /\ cache' = cache
                  /\ disk' = disk]_vars

\* the token of the attempted region has been purged and saved while the
\* cache still holds the token of another region
C16_Witness ==
    /\ pc = "handle"
    /\ args.nocache = FALSE
    /\ ResponseIs({"KMSAuthValidationError"})
    /\ ret.exc = "LambdaInvocationException"
    /\ cache.kmsauth[region] = PurgedEntry
    /\ disk.kmsauth[region] = PurgedEntry
    /\ \E r \in Regions \ {region} :
          /\ cache.kmsauth[r] # None
          /\ cache.kmsauth[r] # PurgedEntry

-----------------------------------------------------------------------------
(* The installation of the certificate                                     *)

\* the step writes the certificate file
WritesCert ==
    \/ cert_file' # cert_file
    \/ Count(log', "write_cert") > Count(log, "write_cert")

\* C17: with either backend the certificate file is written only from a
\* signing response that begins with 'ssh-rsa-cert-v01@openssh.com ', its
\* content is then that response as it was received, and a response without
\* the prefix never causes a write
C17_CertificateVerbatim ==
    [][/\ WritesCert =>
            /\ pc \in {"install", "vault_install"}
            /\ locals.cert.prefix
            /\ cert_file' = [exists |-> TRUE, mtime |-> now,
                             content |-> locals.cert]
       /\ (pc \in {"install", "vault_install"} /\ ~locals.cert.prefix) =>
            /\ cert_file' = cert_file
            /\ Count(log', "write_cert") = 0]_vars

\* vault_bless() has replaced the certificate of an earlier run by the
\* response it received
C17_Witness ==
    /\ pc = "handle"
    /\ args.ca_backend = "hashicorp-vault"
    /\ HasResponse
    /\ locals.cert.prefix
    /\ Count(log, "write_cert") = 1
    /\ cert_file.content = locals.cert
    /\ cert_file.content # OldCert
    /\ cert_file.mtime = now

\* how often the certificate file has been written in the attempts of the
\* run that are over
RECURSIVE InstallsUpTo(_)
InstallsUpTo(n) ==
    IF n = 0 THEN 0 ELSE InstallsUpTo(n - 1) + attempted[n].installed

Installs == InstallsUpTo(Len(attempted))

\* the run has ended after a call of bless() that returned
RunSucceeded ==
    /\ pc = "exit"
    /\ exit_status = 0
    /\ Len(attempted) > 0
    /\ attempted[Len(attempted)].exc = "none"

\* C18: in one run the certificate is installed exactly once if the run
\* succeeds by signing, not at all if the run fails or ends on a freshness
\* short-circuit, and never twice across the regions of the run
C18_InstallOncePerSuccess ==
    /\ Installs <= 1
    /\ pc = "exit" =>
        IF RunSucceeded /\ ~attempted[Len(attempted)].fresh
        THEN Installs = 1
        ELSE Installs = 0

\* the parts of C18 that hold: never twice, once after a success by
\* signing, not at all after a freshness short-circuit
C18_AtMostOnce ==
    /\ Installs <= 1
    /\ RunSucceeded =>
        Installs = IF attempted[Len(attempted)].fresh THEN 0 ELSE 1

\* the attempt in progress has received a certificate and bless() has
\* returned
SignedAttempt ==
    /\ pc = "handle"
    /\ ret.exc = "none"
    /\ HasResponse
    /\ locals.cert.prefix

\* C19: a successful attempt (a signing response with the prefix) saves the
\* cache exactly once between the start of the attempt and its end
C19_OnePersistPerSuccess ==
    SignedAttempt => Count(log, "save") = 1

\* what the code does: the context is saved before the signing call and
\* 'certip' after the installation, whatever else has been saved before
C19_AtLeastTwoPersists ==
    SignedAttempt => Count(log, "save") >= 2

-----------------------------------------------------------------------------
(* The certificate context after an issuance                               *)

\* the later check finds the certificate within its lifetime but older than
\* the address cache allows
OutsideIpWindow ==
    LET certlife == now - cert_file.mtime
    IN  /\ pc = "checked"
        /\ certlife < (blessconfig.certlifetime - CertMargin) * TicksPerSec
        /\ certlife >= blessconfig.ipcachelifetime * TicksPerSec

\* 'certip' is the caller's address of the issuance, in the cache and in the
\* cache file, and a later check from that address finds the certificate
\* fresh
CertipKept ==
    /\ Issued => (cache.certip = locals.my_ip /\ disk.certip = locals.my_ip)
    /\ OutsideIpWindow => (ret.exc = "none" /\ ret.val = 1)

\* C20: after every successful issuance, by bless() or by vault_bless(), the
\* cached and saved 'certip' is the address that was current at the
\* issuance, so that a later freshness check outside the IP-cache window and
\* from the same address judges the certificate fresh
C20_CertipAtIssuance == CertipKept

\* the part of C20 that holds: the issuances of bless()
C20_BlessCertip == args.ca_backend = "bless" => CertipKept

-----------------------------------------------------------------------------
(* The order of the stages of an attempt                                   *)

\* the stage an event of the call belongs to, 0 for the events of no stage
StageOf(e) ==
    IF e = "mint" THEN 2
    ELSE IF e = "fresh" THEN 3
    ELSE IF e = "sign" THEN 4
    ELSE IF e = "write_cert" THEN 5
    ELSE 0

\* token, freshness check, signing call and installation follow each other
\* in this order in the call in progress
C21_LaterStagesOrdered ==
    \A i, j \in 1..Len(log) :
        (i < j /\ StageOf(log[i].e) > 0 /\ StageOf(log[j].e) > 0)
            => StageOf(log[i].e) <= StageOf(log[j].e)

\* the events get_env_creds adds to the log of the call
CredsEvents == SubSeq(log', Len(log) + 1, Len(log'))

\* in get_env_creds the role credentials are in hand before a token is
\* minted: they are cached and valid, or the role is assumed first
RoleBeforeToken ==
    \A i \in 1..Len(CredsEvents) :
        CredsEvents[i].e = "mint" =>
            \/ CachedCredsState(cache.blessrole_creds, now) = "valid"
            \/ \E j \in 1..(i - 1) : CredsEvents[j].e = "assume_role"

\* C21: within one attempt the stages run in the order role credentials,
\* auth token, freshness check, signing call, installation; no token is
\* minted before the role credentials of the attempt have been obtained
C21_StageOrder ==
    [][/\ pc = "creds" => RoleBeforeToken
       /\ C21_LaterStagesOrdered']_vars

-----------------------------------------------------------------------------
(* UserIP: the override, the cached address, the refresh                   *)

\* the call that was made is getIP on an object built with the override f
GetIPWithOverride(f) ==
    /\ pre.op = "getIP"
    /\ pre.arg.userIP = UserIP(f)

\* the call left the cache, the cache file and the UserIP object alone and
\* made no request
NoTrace ==
    /\ log = <<>>
    /\ cache = pre.cache
    /\ disk = pre.disk
    /\ userIP = pre.arg.userIP

\* C22: getIP on a UserIP with a fixed override returns the override on
\* every call and for every cache state, without a network request and
\* without a read or write of the cache
C22_OverrideAlwaysReturned ==
    \A f \in IPs :
        GetIPWithOverride(f) => (ret.exc = "none" /\ ret.val = f /\ NoTrace)

\* getIP has returned the override although the cache holds another
\* address that is still within maxcachetime
C22_Witness ==
    /\ GetIPWithOverride(2)
    /\ ret.val = 2
    /\ pre.cache.lastip = 1
    /\ pre.now - pre.cache.lastipchecktime < blessconfig.ipcachelifetime * TicksPerSec
    /\ NoTrace

\* the call that was made is getIP on an object without override that has
\* not refreshed yet
GetIPFromCache ==
    /\ pre.op = "getIP"
    /\ pre.arg.userIP = [fresh |-> FALSE, currentIP |-> NoValue]

\* a cached record exists and is younger than maxcachetime
WithinIpWindow ==
    /\ pre.cache.lastipchecktime # NoValue
    /\ pre.now - pre.cache.lastipchecktime
           < blessconfig.ipcachelifetime * TicksPerSec

\* the first endpoint with a usable answer, 0 when there is none
RECURSIVE FirstUsable(_, _)
FirstUsable(responses, i) ==
    IF i > Len(responses) THEN 0
    ELSE IF responses[i] \in IPs THEN i
    ELSE FirstUsable(responses, i + 1)

\* the call has refreshed: the address returned is the answer of an
\* endpoint contacted in this call, cached with the time of the call
Refreshed ==
    /\ Count(log, "fetch") >= 1
    /\ ret.val = pre.arg.responses[Count(log, "fetch")]
    /\ cache.lastip = ret.val
    /\ cache.lastipchecktime = pre.now

FetchedInOrder(n) ==
    /\ Count(log, "fetch") = n
    /\ \A i \in 1..n : log[i] = Ev("fetch", i)

\* a refresh contacts the endpoints in configured order up to the first one
\* that gives a non-empty address, returns that address and contacts none
\* after it; the address and the check time are cached and saved before
\* getIP returns
FirstAddressWins ==
    (GetIPFromCache /\ ~WithinIpWindow) =>
        LET responses == pre.arg.responses
            k == FirstUsable(responses, 1)
        IN  IF k = 0
            THEN ret.exc = "Exception" /\ FetchedInOrder(Len(responses))
            ELSE /\ ret.exc = "none"
                 /\ ret.val = responses[k]
                 /\ FetchedInOrder(k)
                 /\ cache = [pre.cache EXCEPT !.lastip = responses[k],
                                              !.lastipchecktime = pre.now]
                 /\ disk = cache
                 /\ log = [i \in 1..(k + 3) |->
                             IF i <= k THEN Ev("fetch", i)
                             ELSE IF i <= k + 2 THEN Ev("set", 0)
                             ELSE Ev("save", 0)]
                 /\ userIP = [fresh |-> TRUE, currentIP |-> responses[k]]

\* the bodies that text is a padding of: text without the whitespace at
\* its two ends
TrimmedBodies(text) ==
    {SubSeq(text, i, j) : <<i, j>> \in
        {<<a, b>> \in (1..(Len(text) + 1)) \X (0..Len(text)) :
            /\ \A n \in 1..(a - 1) : text[n] \in Whitespace
            /\ \A n \in (b + 1)..Len(text) : text[n] \in Whitespace
            /\ a <= b => (text[a] \notin Whitespace /\ text[b] \notin Whitespace)
            /\ a > b => a = Len(text) + 1}}

\* the response has status 200 and a trimmed body of characters from
\* [0-9a-fA-F.:] only
ValidResponse(r) ==
    /\ ~r.error
    /\ r.status_code = 200
    /\ \A body \in TrimmedBodies(r.text) :
        \A n \in 1..Len(body) : body[n] \in ValidIpCharacters

\* getIP was called with the endpoints answering as pre.arg.responses
FetchCall ==
    /\ pre.op = "getIP"
    /\ DOMAIN pre.arg.responses = 1..MaxUrls
    /\ \A i \in 1..MaxUrls : pre.arg.responses[i] \in RawResponses

\* the first endpoint from i on whose response is valid, 0 when none is
RECURSIVE FirstValid(_, _)
FirstValid(responses, i) ==
    IF i > Len(responses) THEN 0
    ELSE IF ValidResponse(responses[i]) THEN i
    ELSE FirstValid(responses, i + 1)

\* C24: a refresh contacts the endpoints in configured order, returns the
\* address of the first one with a valid response (status 200, trimmed body
\* of valid characters) and contacts none after it; on success the address
\* and the check time are cached and saved before getIP returns
C24_FirstValidWins ==
    FetchCall =>
        LET responses == pre.arg.responses
            k == FirstValid(responses, 1)
        IN  IF k = 0
            THEN ret.exc = "Exception" /\ FetchedInOrder(Len(responses))
            ELSE /\ ret.exc = "none"
                 /\ FetchedInOrder(k)
                 /\ ret.val = AddressOf(Strip(responses[k].text))
                 /\ cache = [pre.cache EXCEPT !.lastip = ret.val,
                                              !.lastipchecktime = pre.now]
                 /\ disk = cache

\* C25: _fetchIP accepts a response iff its status is 200 and its trimmed
\* body has only characters from [0-9a-fA-F.:], and then returns the trimmed
\* body; an endpoint that was rejected or failed gives no address, and the
\* resolver goes on to the next endpoint, raising only after the last one
C25_AcceptsIffValid ==
    FetchCall =>
        \A i \in 1..Count(log, "fetch") :
            LET r == pre.arg.responses[i]
                ip == fetchIPText(r)
            IN  /\ ip # None <=> ValidResponse(r)
                /\ ip # None => ip[1] \in TrimmedBodies(r.text)
                /\ ~ValidResponse(r) =>
                    /\ Answer(r) = NoValue
                    /\ i < MaxUrls => log[i + 1] = Ev("fetch", i + 1)
                    /\ i = MaxUrls => (ret.exc = "Exception" /\ cache = pre.cache)

\* "<html>" from the first endpoint was rejected, the second endpoint was
\* asked and its "203.0.113.5" accepted
C25_Witness ==
    /\ FetchCall
    /\ pre.arg.responses[1] =
           [error |-> FALSE, status_code |-> 200,
            text |-> <<"<", "h", "t", "m", "l", ">">>]
    /\ pre.arg.responses[2] =
           [error |-> FALSE, status_code |-> 200,
            text |-> <<"2", "0", "3", ".", "0", ".", "1", "1", "3", ".", "5">>]
    /\ FetchedInOrder(2)
    /\ ret.exc = "none"
    /\ ret.val = AddressOf(pre.arg.responses[2].text)
    /\ cache.lastip = ret.val

-----------------------------------------------------------------------------
(* No endpoint answers                                                     *)

\* in the call that has just ended every configured endpoint was contacted
\* and the last one gave no address either
AllEndpointsFailed ==
    \E i \in 1..Len(log) :
        /\ log[i] = Ev("fetch", MaxUrls)
        /\ i < Len(log) => log[i + 1].e # "set"

\* the cached address and its check time are those of the start of the call,
\* in the cache and in the cache file
IpRecordKept ==
    /\ cache.lastip = pre.cache.lastip
    /\ cache.lastipchecktime = pre.cache.lastipchecktime
    /\ disk.lastip = pre.disk.lastip
    /\ disk.lastipchecktime = pre.disk.lastipchecktime

\* C26: when every configured endpoint fails, getIP raises even if a stale
\* cached address exists, the cached IP record stays as it was, and the run
\* ends without an attempt in another region
C26_NoEndpointFatal ==
    [][(pc = "handle" /\ AllEndpointsFailed) =>
          /\ ret.exc = "Exception"
          /\ locals = <<>>
          /\ Count(log, "sign") = 0
          /\ IpRecordKept
          /\ pc' = "exit"
          /\ exit_status' = 1
          /\ attempted' = [attempted EXCEPT ![Len(attempted)].exc = "Exception"]
          /\ disk' = disk]_vars

\* with a stale address in the cache and regions left in the ring, bless()
\* has ended with the exception of getIP
C26_Witness ==
    /\ pc = "handle"
    /\ AllEndpointsFailed
    /\ ret.exc = "Exception"
    /\ pre.cache.lastip = 1
    /\ pre.now - pre.cache.lastipchecktime >= blessconfig.ipcachelifetime * TicksPerSec
    /\ Len(attempted) < Len(regions)

-----------------------------------------------------------------------------
(* vault_bless: permission denied                                          *)

\* vault_bless is past its signing calls
VaultSigned ==
    /\ pc \in {"vault_install", "handle"}
    /\ Ev("vault_bless", 0) \in Range(log)
    /\ Count(log, "sign") >= 1

\* the number of signing calls among the first i events of the call
SignsUpTo(i) == Count(SubSeq(log, 1, i), "sign")

-----------------------------------------------------------------------------
(* auth_okta                                                               *)

\* auth_okta was called on a cache with no session or a session with an
\* expiration time
AuthCall ==
    /\ pre.op = "auth_okta"
    /\ pre.cache.vault_creds # None => pre.cache.vault_creds.expiration # NoneStamp

\* the session cached before the call expires strictly after the call
SessionValid ==
    /\ pre.cache.vault_creds # None
    /\ pre.now < pre.cache.vault_creds.expiration * TicksPerSec

\* the letters and dots of a user name up to the first other character
\* after them
IsNormalized(name, username) ==
    \E i \in 1..Len(username), j \in 1..Len(username) :
        /\ name = SubSeq(username, i, j)
        /\ i <= j
        /\ \A n \in 1..(i - 1) : username[n] \notin UsernameCharacters
        /\ \A n \in i..j : username[n] \in UsernameCharacters
        /\ j < Len(username) => username[j + 1] \notin UsernameCharacters

\* C28: with a cached session that expires strictly after now, auth_okta
\* returns the cached token and user name without a prompt; with no session
\* or an expired one the user is prompted exactly once, and after a
\* successful login the cache holds the token returned, the expiration
\* login time + lease duration and the normalized user name, and is saved
\* before auth_okta returns
C28_SessionCache ==
    AuthCall =>
        IF SessionValid
        THEN /\ ret.exc = "none"
             /\ ret.val.token = pre.cache.vault_creds.token
             /\ ret.val.username = pre.cache.vault_creds.username
             /\ log = <<>>
             /\ cache = pre.cache
             /\ disk = pre.disk
        ELSE /\ Count(log, "prompt") = 1
             /\ pre.arg.login = "ok" =>
                 /\ ret.exc = "none"
                 /\ cache.vault_creds # None
                 /\ cache.vault_creds.token = ret.val.token
                 /\ cache.vault_creds.expiration =
                        Strftime(pre.now + lease_duration * TicksPerSec)
                 /\ IsNormalized(cache.vault_creds.username, pre.arg.username)
                 /\ ret.val.username = cache.vault_creds.username
                 /\ disk = cache
                 /\ log = <<Ev("prompt", 0), Ev("login", 0), Ev("set", 0),
                            Ev("save", 0)>>

\* the cached-session part and the login part of C28 for user names that
\* have a letter
SessionCacheForNames ==
    (AuthCall /\ get_linux_username(pre.arg.username) # <<>>) => C28_SessionCache

-----------------------------------------------------------------------------
(* Two processes on one cache file                                         *)

\* the last operation was one of the first process, or of the second, and
\* it saved
FirstSaved ==
    /\ pre.op \in {"get_kmsauth_token", "clear_kmsauth_token_cache"}
    /\ Count(log, "save") >= 1

PeerSaved ==
    /\ pre.op \in {"peer get_kmsauth_token", "peer clear_kmsauth_token_cache"}
    /\ Count(log, "save") >= 1

\* C29: two processes on one cache file are not coordinated: after a save
\* the file is the in-memory mapping of the process that saved, whatever
\* the other process had saved before, and at any time the file is the
\* mapping of one of the two
C29_LastSaveWins ==
    /\ FirstSaved => disk = cache
    /\ PeerSaved => disk = peer.cache
    /\ disk = cache \/ (peer.loaded /\ disk = peer.cache)

\* both processes had loaded the file; the first minted and saved a token
\* for region 1, then the second saved a purge for region 2: the file no
\* longer has the token of region 1
C29_Witness ==
    /\ PeerSaved
    /\ pre.op = "peer clear_kmsauth_token_cache"
    /\ pre.arg.region = 2
    /\ pre.disk.kmsauth[1] # None
    /\ pre.disk.kmsauth[1] = cache.kmsauth[1]
    /\ disk.kmsauth[1] = None
    /\ disk = peer.cache

-----------------------------------------------------------------------------
(* The region loop of sshclient.main                                       *)

\* C30: in the loop of sshclient.main an attempt that bless() ends with a
\* retryable signing-invocation error, a botocore ClientError or a
\* connection error is followed by an attempt in the next region of the
\* ring, when one remains, as in client.main
C30_SshclientSoftAdvances ==
    [][(/\ pc = "handle"
        /\ args.entry = "sshclient"
        /\ ret.exc \in SoftFailures
        /\ Len(attempted) < Len(regions)) => pc' = "loop"]_vars

\* what the loop of sshclient.main does instead: every exception of bless()
\* but SystemExit ends the run, and SystemExit makes it go on
SshclientAdvancesOnExit ==
    [][(/\ pc = "handle"
        /\ args.entry = "sshclient"
        /\ ret.exc # "none")
          => IF ret.exc = "SystemExit" THEN pc' = "loop"
             ELSE pc' = "exit" /\ exit_status' = 1]_vars

-----------------------------------------------------------------------------
(* Purged token entries                                                    *)

\* the entry clear_kmsauth_token_cache writes
IsPurged(entry) ==
    /\ entry # None
    /\ entry.token = NullToken

\* C31: clear_kmsauth_token_cache leaves a purged entry for the region, in
\* the cache and in the file; a get_kmsauth_token that finds it mints and
\* never returns the null token; the entry stops being the purged one only
\* in a get_kmsauth_token of that region that minted a token and cached it;
\* and an entry with a null token always has an Expiration before now
C31_PurgedUntilMinted ==
    /\ [](/\ pre.op = "clear_kmsauth_token_cache" =>
              /\ IsPurged(cache.kmsauth[pre.arg.region])
              /\ disk = cache
          /\ (pre.op = "get_kmsauth_token"
                 /\ IsPurged(pre.cache.kmsauth[pre.arg.region])) =>
              /\ Count(log, "mint") = 1
              /\ ret.exc \in {"none", "LambdaInvocationException"}
              /\ ret.exc = "none" =>
                  /\ ret.val # NullToken
                  /\ ret.val = <<pre.arg.region, pre.now>>
          /\ \A r \in Regions :
              IsPurged(cache.kmsauth[r]) =>
                  cache.kmsauth[r].Expiration * TicksPerSec < now)
    /\ [][\A r \in Regions :
            (IsPurged(cache.kmsauth[r]) /\ cache'.kmsauth[r] # cache.kmsauth[r]) =>
                /\ pre'.op = "get_kmsauth_token"
                /\ pre'.arg.region = r
                /\ Count(log', "mint") = 1
                /\ ret'.exc = "none"
                /\ cache'.kmsauth[r].token = ret'.val
                /\ disk' = cache']_vars

\* a region was purged, time has passed, and get_kmsauth_token has minted
\* for it; with a usable lifetime of zero the entry is still the purged one
C31_Witness ==
    /\ pre.op = "get_kmsauth_token"
    /\ IsPurged(pre.cache.kmsauth[pre.arg.region])
    /\ pre.now > Now0
    /\ ret.exc = "none"
    /\ Count(log, "mint") = 1
    /\ token_skew = 30
    /\ IsPurged(cache.kmsauth[pre.arg.region])

-----------------------------------------------------------------------------
(* Claims about sequences of calls of bless()                               *)

\* the bastion_ips of the signing request that issued the certificate now in
\* the certificate file: that of the last call of the sequence that wrote
\* the file, or, for the certificate the sequence started with, the
\* 'bastion_ips' its issuing run left in the cache file
RECURSIVE IssuedFor(_)
IssuedFor(n) ==
    IF n = 0 THEN WarmCache({}).bastion_ips
    ELSE IF attempted[n].installed > 0 THEN attempted[n].bastion_ips
    ELSE IssuedFor(n - 1)

\* the call in progress has ended with check_fresh_cert returning True
FreshReturn ==
    /\ pc = "handle"
    /\ ret.exc = "none"
    /\ Ev("fresh", 1) \in Range(log)

\* C32: over any sequence of runs of bless(), whenever check_fresh_cert
\* returns True for an ip_list, the certificate in the certificate file was
\* issued by a signing request whose bastion_ips equals that ip_list: the
\* cached 'bastion_ips' is not changed by a run that installs no certificate.
C32_FreshForIssuedIpList ==
    FreshReturn => locals.ip_list = IssuedFor(Len(attempted))

\* a call that installs a certificate leaves the bastion_ips of its request
\* in the cache file
InstallCachesIssuedIpList ==
    (pc = "handle" /\ Count(log, "write_cert") > 0) =>
        disk.bastion_ips = locals.payload.bastion_ips

\* a signing request has been built in the call in progress
RequestBuilt == pc \in {"install", "handle"} /\ "payload" \in DOMAIN locals

\* C33: in every signing request built by bless() the first entry of
\* bastion_ips equals bastion_user_ip, the caller's current address, on
\* every path that computes ip_list, the reuse of the cached 'bastion_ips'
\* for an unchanged 'remote_ip' after a change of the caller's address
\* included.
C33_FirstBastionIpIsCaller ==
    RequestBuilt =>
        /\ locals.payload.bastion_ips # None
        /\ Head(locals.payload.bastion_ips) = locals.payload.bastion_user_ip

\* in the first call of a sequence, which finds no 'remote_ip' in the cache
\* file, the first entry of bastion_ips is the caller's address
FirstCallRequestNamesCaller ==
    (RequestBuilt /\ attempted = <<>>) =>
        /\ locals.payload.bastion_ips # None
        /\ Head(locals.payload.bastion_ips) = locals.payload.bastion_user_ip

-----------------------------------------------------------------------------
(* Claims about cache writes and saves                                      *)

\* the event at position i of the log is a set that is followed neither by
\* another set nor by a save: the operation has gone on to another call, or
\* has ended, with the write pending
PendingAt(l, i) ==
    /\ l[i].e = "set"
    /\ i = Len(l) \/ l[i + 1].e \notin {"set", "save"}

\* C34: no core operation returns normally with pending unsaved cache
\* writes: in get_blessrole_credentials, get_housekeeperrole_credentials,
\* get_kmsauth_token, clear_kmsauth_token_cache, get_username, auth_okta,
\* UserIP._refreshIP and bless every set is followed by a save before any
\* network call or return, so that the cache file holds every update of an
\* operation that has returned.
C34_NoPendingWrites ==
    /\ \A i \in 1..Len(log) : ~PendingAt(log, i)
    /\ ret.exc = "none" => disk = cache

\* bless() has returned after an issuance through the housekeeper branch on
\* an empty cache file: every operation of the call has written and saved,
\* and the cache file holds all of it
C34_Witness ==
    /\ pc = "handle"
    /\ ret.exc = "none"
    /\ args.env.housekeeper
    /\ Count(log, "write_cert") = 1
    /\ Count(log, "set") >= 11
    /\ Count(log, "save") >= 8
    /\ disk = cache
    /\ disk.certip = locals.my_ip
    /\ disk.bastion_ips = locals.ip_list
    /\ disk.housekeeperrole_creds # None
    /\ disk.blessrole_creds # None
    /\ disk.kmsauth[region] # None
    /\ disk.username = locals.username
    /\ disk.lastip = locals.my_ip

====
